---- MODULE Spec2Model ----
(***************************************************************************)
(* Verification model of deckhouse/sds-lvm:                                *)
(*   - the LocalStorageClass reconciler (controller package), and          *)
(*   - the CSI controller service (CreateVolume and friends).              *)
(* One LocalStorageClass name and the StorageClass of the same name are    *)
(* modelled, with a single reconcile worker (controller-runtime runs one   *)
(* reconcile per key at a time) interleaved with other writers of the      *)
(* store.                                                                  *)
(***************************************************************************)
EXTENDS Integers, Sequences, FiniteSets, TLC

VARIABLES
    lscStore,   \* the stored LocalStorageClass "a", or NoObj
    scStore,    \* the stored StorageClass "a", or NoObj
    w,          \* the reconcile worker: position, local objects, result
    idIn,       \* input of a stand-alone identifyReconcileFunc evaluation
    idOut,      \* its result
    req,        \* the CreateVolume request the CSI controller is called with
    lvgFree,    \* free capacity of each candidate volume group, as reported
    llv,        \* the stored LVMLogicalVolume of the request's name, or NoObj
    rpc,        \* the CreateVolume invocation: position, locals, result
    resps       \* what the finished CreateVolume calls returned, in order

rvars == <<lscStore, scStore, w>>
pvars == <<idIn, idOut>>
cvars == <<req, lvgFree, llv, rpc, resps>>
vars == <<lscStore, scStore, w, idIn, idOut, req, lvgFree, llv, rpc, resps>>

----------------------------------------------------------------------------
(* Constants of the controller package.                                    *)

Thin == "Thin"
Thick == "Thick"
LocalStorageClassProvisioner == "local.csi.storage.deckhouse.io"
ForeignProvisioner == "other.csi.example.io"
LocalStorageClassFinalizerName == "localstorageclass.storage.deckhouse.io"
FailedStatusPhase == "Failed"
CreatedStatusPhase == "Created"
CreateReconcile == "Create"
UpdateReconcile == "Update"
DeleteReconcile == "Delete"
NoneReconcile == "none"

\* absent object, nil Status pointer, nil Thin pointer
NoObj == [none |-> "object"]
NoStatus == [none |-> "status"]
NoThin == [none |-> "thin"]
LscName == "a"
OtherName == "b"

\* Bound on the number of volume-group bindings in the inputs of the
\* stand-alone evaluations.
MaxLvgs == 2

----------------------------------------------------------------------------
(* Data.                                                                   *)

\* A binding of a LocalStorageClass: v1alpha1.LocalStorageClassLVG.
Lvg(n, t) == [name |-> n, thin |-> t]
ThinPool(p) == [poolName |-> p]

\* yaml.Marshal / yaml.Unmarshal of a binding list.  The encoded form is a
\* sequence of <<name, thin>> pairs where thin is <<>> for "thin: null" and
\* <<poolName>> otherwise.  Two more blobs occur in parameters that were not
\* written by configureStorageClass: the empty string (key absent) and text
\* that is no YAML list.
EmptyBlob == [yaml |-> "empty", items |-> <<>>]
MalformedBlob == [yaml |-> "malformed", items |-> <<>>]

MarshalLVG(l) == <<l.name, IF l.thin = NoThin THEN <<>> ELSE <<l.thin.poolName>>>>
YamlMarshal(lvgs) == [yaml |-> "list", items |-> [i \in 1..Len(lvgs) |-> MarshalLVG(lvgs[i])]]

UnmarshalLVG(e) == [name |-> e[1], thin |-> IF e[2] = <<>> THEN NoThin ELSE ThinPool(e[2][1])]
YamlUnmarshal(blob) ==
    IF blob.yaml = "malformed" THEN [err |-> TRUE, lvgs |-> <<>>]
    ELSE [err |-> FALSE, lvgs |-> [i \in 1..Len(blob.items) |-> UnmarshalLVG(blob.items[i])]]

\* getLVGFromSCParams
GetLVGFromSCParams(sc) == YamlUnmarshal(sc.params.lvgs)

HasFinalizer(fins) == \E i \in 1..Len(fins) : fins[i] = LocalStorageClassFinalizerName

----------------------------------------------------------------------------
(* The volume groups the validation lists: name, owning nodes, thin pools  *)
(* of the status.  They are owned by the node agents and read-only here.   *)

LvgList ==
    << [name |-> "vg1", nodes |-> <<"node1">>, thinPools |-> <<"tp1">>],
       [name |-> "vg2", nodes |-> <<"node2">>, thinPools |-> <<"tp2">>],
       [name |-> "vg3", nodes |-> <<"node1">>, thinPools |-> <<>>] >>

----------------------------------------------------------------------------
(* Diff engine: hasLVGDiff.  The result is "diff" (true, nil), "same"      *)
(* (false, nil), "err" (false, err) or "panic" (nil pointer dereference of *)
(* lsc...Thin.PoolName at line 468).                                       *)

RECURSIVE HasLVGDiffFrom(_, _, _, _)
HasLVGDiffFrom(i, currentLVGs, lscLVGs, type) ==
    IF i > Len(currentLVGs) THEN "same"
    ELSE IF currentLVGs[i].name # lscLVGs[i].name THEN "diff"
    ELSE IF type = Thin /\ currentLVGs[i].thin = NoThin /\ lscLVGs[i].thin # NoThin THEN "diff"
    ELSE IF type = Thin /\ currentLVGs[i].thin = NoThin /\ lscLVGs[i].thin = NoThin THEN "err"
    ELSE IF type = Thin /\ lscLVGs[i].thin = NoThin THEN "panic"
    ELSE IF type = Thin /\ currentLVGs[i].thin.poolName # lscLVGs[i].thin.poolName THEN "diff"
    ELSE HasLVGDiffFrom(i + 1, currentLVGs, lscLVGs, type)

HasLVGDiff(sc, lsc) ==
    LET cur == GetLVGFromSCParams(sc) IN
    IF cur.err THEN "err"
    ELSE IF Len(cur.lvgs) # Len(lsc.spec.lvgs) THEN "diff"
    ELSE HasLVGDiffFrom(1, cur.lvgs, lsc.spec.lvgs, lsc.spec.type)

----------------------------------------------------------------------------
(* Classification: identifyReconcileFunc and its three predicates.         *)
(* scList is the sequence of listed StorageClasses.                        *)

\* the first listed StorageClass with the given name, or NoObj
RECURSIVE FindSCFrom(_, _, _)
FindSCFrom(i, scList, name) ==
    IF i > Len(scList) THEN NoObj
    ELSE IF scList[i].name = name THEN scList[i]
    ELSE FindSCFrom(i + 1, scList, name)

FindSC(scList, name) == FindSCFrom(1, scList, name)

\* as shouldReconcileByDeleteFunc, with the deletion timestamp looked at only
\* when a status is recorded
ShouldReconcileByDeleteFunc_StatusFirst(lsc) == lsc.deletion /\ lsc.status # NoStatus

ShouldReconcileByDeleteFunc(lsc) == lsc.deletion

\* as shouldReconcileByCreateFunc, with the loop's && read as the conjunction
\* of "no StorageClass of the name" and "no status"
ShouldReconcileByCreateFunc_Conjunction(scList, lsc) ==
    IF lsc.deletion THEN FALSE
    ELSE /\ ~ \E i \in 1..Len(scList) : scList[i].name = lsc.name
         /\ lsc.status = NoStatus

ShouldReconcileByCreateFunc(scList, lsc) ==
    IF lsc.deletion THEN FALSE
    ELSE ~ \E i \in 1..Len(scList) : scList[i].name = lsc.name /\ lsc.status # NoStatus

\* as shouldReconcileByUpdateFunc, without the "no diff, phase not Failed"
\* exit: every StorageClass of this provisioner is to be updated
ShouldReconcileByUpdateFunc_AlwaysUpdate(scList, lsc) ==
    IF lsc.deletion THEN "false"
    ELSE LET sc == FindSC(scList, lsc.name) IN
         IF sc = NoObj THEN "err"
         ELSE IF sc.provisioner # LocalStorageClassProvisioner THEN "err"
         ELSE LET d == HasLVGDiff(sc, lsc) IN
              IF d \in {"err", "panic"} THEN d ELSE "true"

\* result: "true", "false", "err" or "panic"
ShouldReconcileByUpdateFunc(scList, lsc) ==
    IF lsc.deletion THEN "false"
    ELSE LET sc == FindSC(scList, lsc.name) IN
         IF sc = NoObj THEN "err"
         ELSE IF sc.provisioner # LocalStorageClassProvisioner THEN "err"
         ELSE LET d == HasLVGDiff(sc, lsc) IN
              IF d \in {"err", "panic"} THEN d
              ELSE IF d = "diff" THEN "true"
              ELSE IF lsc.status = NoStatus THEN "panic"
              ELSE IF lsc.status.phase = FailedStatusPhase THEN "true"
              ELSE "false"

\* result: [type, err, panic]
IdRes(t, e) == [type |-> t, err |-> e, panic |-> FALSE]
IdPanic == [type |-> NoneReconcile, err |-> FALSE, panic |-> TRUE]

IdentifyReconcileFunc(scList, lsc) ==
    IF ShouldReconcileByDeleteFunc(lsc) THEN IdRes(DeleteReconcile, FALSE)
    ELSE IF ShouldReconcileByCreateFunc(scList, lsc) THEN IdRes(CreateReconcile, FALSE)
    ELSE LET should == ShouldReconcileByUpdateFunc(scList, lsc) IN
         IF should = "panic" THEN IdPanic
         ELSE IF should = "err" THEN IdRes(NoneReconcile, TRUE)
         ELSE IF should = "true" THEN IdRes(UpdateReconcile, FALSE)
         ELSE IdRes(NoneReconcile, FALSE)

----------------------------------------------------------------------------
(* Validation engine: validateLocalStorageClass and its finders.  A reason *)
(* is the sequence of the messages written, each named by its check.       *)

OwnedBy(sc) == sc.provisioner = LocalStorageClassProvisioner

\* findUnmanagedDuplicatedSC: "" is NoObj here
FindUnmanagedDuplicatedSC(scList, lsc) ==
    \E i \in 1..Len(scList) : scList[i].name = lsc.name /\ ~OwnedBy(scList[i])

LvgNames(lvgList) == {lvgList[i].name : i \in 1..Len(lvgList)}
LvgByName(lvgList, n) == CHOOSE g \in {lvgList[i] : i \in 1..Len(lvgList)} : g.name = n

\* findNonexistentLVGs
FindNonexistentLVGs(lvgList, lsc) ==
    SelectSeq(lsc.spec.lvgs, LAMBDA l : l.name \notin LvgNames(lvgList))

\* as findNonexistentThinPools, without the lookup in the group's status
FindNonexistentThinPools_NilOnly(lvgList, lsc) ==
    SelectSeq(lsc.spec.lvgs, LAMBDA l : l.thin = NoThin)

\* findNonexistentThinPools
FindNonexistentThinPools(lvgList, lsc) ==
    SelectSeq(lsc.spec.lvgs, LAMBDA l :
        \/ l.thin = NoThin
        \/ l.name \notin LvgNames(lvgList)
        \/ LET tps == LvgByName(lvgList, l.name).thinPools IN
           ~ \E k \in 1..Len(tps) : tps[k] = l.thin.poolName)

\* findAnyThinPool
FindAnyThinPool(lsc) == SelectSeq(lsc.spec.lvgs, LAMBDA l : l.thin # NoThin)

\* findLVMVolumeGroupsOnTheSameNode: the nodes that own more than one of the
\* listed volume groups the spec uses (one message per such node)
FindLVMVolumeGroupsOnTheSameNode(lvgList, lsc) ==
    LET usedLVGs == {lsc.spec.lvgs[i].name : i \in 1..Len(lsc.spec.lvgs)}
        nodesOf(g) == {g.nodes[k] : k \in 1..Len(g.nodes)}
        allNodes == UNION {nodesOf(lvgList[i]) : i \in 1..Len(lvgList)}
        lvgsOn(node) == {i \in 1..Len(lvgList) :
                            lvgList[i].name \in usedLVGs /\ node \in nodesOf(lvgList[i])}
    IN {node \in allNodes : Cardinality(lvgsOn(node)) > 1}

\* listErr: cl.List of the volume groups failed
ValidateLocalStorageClass(scList, lvgList, listErr, lsc) ==
    LET dup == IF FindUnmanagedDuplicatedSC(scList, lsc) THEN <<"duplicate">> ELSE <<>>
        same == IF FindLVMVolumeGroupsOnTheSameNode(lvgList, lsc) # {} THEN <<"samenode">> ELSE <<>>
        nonex == IF FindNonexistentLVGs(lvgList, lsc) # <<>> THEN <<"nonexistent">> ELSE <<>>
        tps == IF lsc.spec.type = Thin
               THEN IF FindNonexistentThinPools(lvgList, lsc) # <<>> THEN <<"thinpools">> ELSE <<>>
               ELSE IF FindAnyThinPool(lsc) # <<>> THEN <<"thickthin">> ELSE <<>>
        msgs == IF listErr THEN dup \o <<"listerr">> ELSE dup \o same \o nonex \o tps
    IN [valid |-> msgs = <<>>, msg |-> msgs]

\* as configureStorageClass, with the thin pools left out of the encoding
ConfigureStorageClass_NamesOnly(lsc) ==
    [ name |-> lsc.name,
      provisioner |-> LocalStorageClassProvisioner,
      params |-> [type |-> lsc.spec.type,
                  lvgs |-> YamlMarshal([i \in 1..Len(lsc.spec.lvgs) |->
                                           Lvg(lsc.spec.lvgs[i].name, NoThin)])],
      finalizers |-> <<>>,
      deletion |-> FALSE ]

\* configureStorageClass
ConfigureStorageClass(lsc) ==
    [ name |-> lsc.name,
      provisioner |-> LocalStorageClassProvisioner,
      params |-> [type |-> lsc.spec.type, lvgs |-> YamlMarshal(lsc.spec.lvgs)],
      finalizers |-> <<>>,
      deletion |-> FALSE ]

\* the finalizer list without the first occurrence of the controller's
RECURSIVE RemoveFinalizer(_)
RemoveFinalizer(fins) ==
    IF fins = <<>> THEN <<>>
    ELSE IF Head(fins) = LocalStorageClassFinalizerName THEN Tail(fins)
    ELSE <<Head(fins)>> \o RemoveFinalizer(Tail(fins))

AddFinalizer(fins) ==
    IF HasFinalizer(fins) THEN fins ELSE Append(fins, LocalStorageClassFinalizerName)

----------------------------------------------------------------------------
(* The store, as the client sees it.  An object that carries finalizers is *)
(* marked for deletion instead of being removed, and is removed when its   *)
(* last finalizer goes.  resourceVersion is represented by whether the     *)
(* object was written by someone else since the local copy was read.       *)

Settle(obj) == IF obj.deletion /\ obj.finalizers = <<>> THEN NoObj ELSE obj

\* cl.Update of the LocalStorageClass
UpdateLSCOk(store, stale, fault) == ~fault /\ store # NoObj /\ ~stale
UpdateLSCNew(store, obj) == Settle([obj EXCEPT !.deletion = store.deletion])

\* cl.Update of a StorageClass; provisioner and parameters are immutable
UpdateSCOk(store, obj, rv, stale, fault) ==
    /\ ~fault
    /\ store # NoObj
    /\ rv = "set" => ~stale
    /\ obj.provisioner = store.provisioner
    /\ obj.params = store.params
UpdateSCNew(store, obj) == Settle([store EXCEPT !.finalizers = obj.finalizers])

\* cl.Create of a StorageClass
CreateSCOk(store, fault) == ~fault /\ store = NoObj

\* cl.Delete of a StorageClass (by name)
DeleteSCOk(store, fault) == ~fault /\ store # NoObj
DeleteSCNew(store) == Settle([store EXCEPT !.deletion = TRUE])

\* cl.List of the StorageClasses: an unrelated class is always there
UnrelatedSC ==
    [ name |-> OtherName, provisioner |-> ForeignProvisioner,
      params |-> [type |-> "", lvgs |-> EmptyBlob], finalizers |-> <<>>, deletion |-> FALSE ]
ListSC(store) == IF store = NoObj THEN <<UnrelatedSC>> ELSE <<UnrelatedSC, store>>

----------------------------------------------------------------------------
(* The reconcile worker.  w.pc names the store call it is about to make.   *)
(* Ghost fields: status0 (Status as read), interf (someone else wrote the  *)
(* store during the invocation), faulted (a store or library call failed   *)
(* for a reason of its own), wrote (the invocation wrote the store), ran        *)
(* (runEventReconcile was entered), lscRejected (a cl.Update of the        *)
(* LocalStorageClass returned an error), scDelete (how deleteStorageClass  *)
(* returned: "none" while it has not), validated (validateLocalStorageClass*)
(* returned true), cfgFailed (configureStorageClass returned an error),    *)
(* phaseWritten (the phase of the last updateLocalStorageClassPhase that   *)
(* returned nil: "none" while there is none), finAdded (how                *)
(* addFinalizerIfNotExistsForLSC returned: "none" while it has not),       *)
(* scRejected (a cl.Create, cl.Update or cl.Delete of the StorageClass     *)
(* returned an error).                                                     *)

IdleW ==
    [ pc |-> "idle", lsc |-> NoObj, status0 |-> NoStatus, scList |-> <<>>,
      sc |-> NoObj, scRV |-> "none", lscStale |-> FALSE, scStale |-> FALSE,
      interf |-> FALSE, faulted |-> FALSE, wrote |-> FALSE, ran |-> FALSE,
      recType |-> NoneReconcile, cont |-> "", reason |-> <<>>,
      requeue |-> FALSE, err |-> FALSE, panic |-> FALSE,
      lscRejected |-> FALSE, scDelete |-> "none", validated |-> FALSE,
      cfgFailed |-> FALSE, phaseWritten |-> "none", finAdded |-> "none",
      scRejected |-> FALSE ]

Finish(wr, requeue, err) == [wr EXCEPT !.pc = "done", !.requeue = requeue, !.err = err]
Panicked(wr) == [wr EXCEPT !.pc = "done", !.panic = TRUE]
Faulted(wr, fault) == [wr EXCEPT !.faulted = @ \/ fault]
\* a cl.Update of the LocalStorageClass that returned an error
Rejected(wr, obj, fault) == [wr EXCEPT !.lsc = obj, !.faulted = @ \/ fault, !.lscRejected = TRUE]
\* a cl.Create, cl.Update or cl.Delete of the StorageClass that returned an
\* error
RejectedSC(wr, fault) == [wr EXCEPT !.faulted = @ \/ fault, !.scRejected = TRUE]
\* an error that is recorded with updateLocalStorageClassPhase(Failed, reason)
FailWith(wr, reason) == [wr EXCEPT !.pc = "failphase", !.reason = reason]

\* configureStorageClass returned an error (yaml.Marshal failed): the error
\* is recorded and, when that update succeeds, returned without a requeue
ConfigureFailed(wr) ==
    [wr EXCEPT !.pc = "failphase", !.reason = <<"error">>, !.cfgFailed = TRUE, !.faulted = TRUE]

\* as DeleteTail, with the finalizer of the LocalStorageClass left in place
DeleteTail_FinalizerKept(wr) == Finish(wr, FALSE, FALSE)

\* reconcileLSCDeleteFunc after the StorageClass is dealt with
DeleteTail(wr) ==
    IF HasFinalizer(wr.lsc.finalizers) THEN [wr EXCEPT !.pc = "d_remfinlsc"]
    ELSE Finish(wr, FALSE, FALSE)

\* as DeleteHead, with the StorageClass left alone
DeleteHead_FinalizerFirst(wr) == DeleteTail(wr)

\* reconcileLSCDeleteFunc up to its first store call
DeleteHead(wr) ==
    LET sc == FindSC(wr.scList, wr.lsc.name) IN
    IF sc = NoObj \/ ~OwnedBy(sc) THEN DeleteTail(wr)
    ELSE [wr EXCEPT !.sc = sc, !.scRV = "set", !.cont = "delete",
                    !.pc = IF HasFinalizer(sc.finalizers) THEN "sc_remfin" ELSE "sc_delete"]

\* runEventReconcile: the dispatch on the identified type
RunEventReconcile(wr) ==
    LET id == IdentifyReconcileFunc(wr.scList, wr.lsc)
        w1 == [wr EXCEPT !.ran = TRUE, !.recType = id.type]
    IN IF id.panic THEN Panicked(w1)
       ELSE IF id.err THEN Finish(w1, TRUE, TRUE)
       ELSE IF id.type = CreateReconcile THEN [w1 EXCEPT !.pc = "c_addfinlsc"]
       ELSE IF id.type = UpdateReconcile THEN [w1 EXCEPT !.pc = "u_validate"]
       ELSE IF id.type = DeleteReconcile THEN DeleteHead(w1)
       ELSE Finish(w1, FALSE, FALSE)

\* Reconcile: cl.Get of the LocalStorageClass
Reconcile_Get ==
    /\ w.pc = "idle"
    /\ \E fault \in BOOLEAN :
         w' = IF fault THEN Finish(Faulted(w, TRUE), FALSE, TRUE)
              ELSE IF lscStore = NoObj THEN Finish(w, FALSE, FALSE)
              ELSE [w EXCEPT !.pc = "list", !.lsc = lscStore, !.status0 = lscStore.status]
    /\ UNCHANGED <<lscStore, scStore, pvars, cvars>>

\* Reconcile: cl.List of the StorageClasses, then runEventReconcile
Reconcile_List ==
    /\ w.pc = "list"
    /\ \E fault \in BOOLEAN :
         w' = IF fault THEN Finish(Faulted(w, TRUE), FALSE, TRUE)
              ELSE RunEventReconcile([w EXCEPT !.scList = ListSC(scStore), !.scStale = FALSE])
    /\ UNCHANGED <<lscStore, scStore, pvars, cvars>>

\* as Create_AddFinalizerLSC, with the create path going on after a failed
\* update
Create_AddFinalizerLSC_ErrIgnored ==
    /\ w.pc = "c_addfinlsc"
    /\ LET obj == [w.lsc EXCEPT !.finalizers = AddFinalizer(@)] IN
       \E fault \in BOOLEAN :
         IF UpdateLSCOk(lscStore, w.lscStale, fault)
         THEN /\ lscStore' = UpdateLSCNew(lscStore, obj)
              /\ w' = [w EXCEPT !.lsc = obj, !.wrote = TRUE, !.finAdded = "ok",
                                !.pc = "c_validate"]
         ELSE /\ lscStore' = lscStore
              /\ w' = [Rejected(w, obj, fault) EXCEPT !.finAdded = "err", !.pc = "c_validate"]
    /\ UNCHANGED <<scStore, pvars, cvars>>

\* addFinalizerIfNotExistsForLSC in reconcileLSCCreateFunc
Create_AddFinalizerLSC ==
    /\ w.pc = "c_addfinlsc"
    /\ LET obj == [w.lsc EXCEPT !.finalizers = AddFinalizer(@)] IN
       \E fault \in BOOLEAN :
         IF UpdateLSCOk(lscStore, w.lscStale, fault)
         THEN /\ lscStore' = UpdateLSCNew(lscStore, obj)
              /\ w' = [w EXCEPT !.lsc = obj, !.wrote = TRUE, !.finAdded = "ok",
                                !.pc = "c_validate"]
         ELSE /\ lscStore' = lscStore
              /\ w' = Finish([Rejected(w, obj, fault) EXCEPT !.finAdded = "err"], TRUE, TRUE)
    /\ UNCHANGED <<scStore, pvars, cvars>>

\* createStorageClassIfNotExists: is the name in the listed snapshot
ListedByName(scList, name) == \E i \in 1..Len(scList) : scList[i].name = name

\* deleteStorageClass up to its first store call, for a class of this
\* provisioner
DeleteStorageClassHead(wr, sc, rv, cont) ==
    [wr EXCEPT !.sc = sc, !.scRV = rv, !.cont = cont,
               !.pc = IF HasFinalizer(sc.finalizers) THEN "sc_remfin" ELSE "sc_delete"]

\* as Create_Validate, with the create path going on after a failed
\* validation
Create_Validate_InvalidIgnored ==
    /\ w.pc = "c_validate"
    /\ \E fault, marshalErr \in BOOLEAN :
         LET v == ValidateLocalStorageClass(w.scList, LvgList, fault, w.lsc)
             sc == ConfigureStorageClass(w.lsc)
             d == HasLVGDiff(sc, w.lsc)
             w1 == [Faulted(w, fault) EXCEPT !.validated = v.valid]
         IN w' = IF marshalErr THEN ConfigureFailed(w1)
                 ELSE IF ~ListedByName(w.scList, sc.name)
                      THEN [w1 EXCEPT !.sc = sc, !.scRV = "none", !.pc = "c_createsc"]
                 ELSE IF d = "err" THEN FailWith(w1, <<"error">>)
                 ELSE IF d = "panic" THEN Panicked(w1)
                 ELSE IF d = "diff" THEN DeleteStorageClassHead(w1, sc, "none", "create")
                 ELSE [w1 EXCEPT !.sc = sc, !.scRV = "none", !.pc = "c_addfinsc"]
    /\ UNCHANGED <<lscStore, scStore, pvars, cvars>>

\* reconcileLSCCreateFunc: validation, configuration and the decision of
\* createStorageClassIfNotExists
Create_Validate ==
    /\ w.pc = "c_validate"
    /\ \E fault, marshalErr \in BOOLEAN :
         LET v == ValidateLocalStorageClass(w.scList, LvgList, fault, w.lsc)
             sc == ConfigureStorageClass(w.lsc)
             d == HasLVGDiff(sc, w.lsc)
             w1 == [Faulted(w, fault) EXCEPT !.validated = v.valid]
         IN w' = IF ~v.valid THEN FailWith(w1, v.msg)
                 ELSE IF marshalErr THEN ConfigureFailed(w1)
                 ELSE IF ~ListedByName(w.scList, sc.name)
                      THEN [w1 EXCEPT !.sc = sc, !.scRV = "none", !.pc = "c_createsc"]
                 ELSE IF d = "err" THEN FailWith(w1, <<"error">>)
                 ELSE IF d = "panic" THEN Panicked(w1)
                 ELSE IF d = "diff" THEN DeleteStorageClassHead(w1, sc, "none", "create")
                 ELSE [w1 EXCEPT !.sc = sc, !.scRV = "none", !.pc = "c_addfinsc"]
    /\ UNCHANGED <<lscStore, scStore, pvars, cvars>>

\* createStorageClassIfNotExists: cl.Create
Create_CreateSC ==
    /\ w.pc = "c_createsc"
    /\ \E fault \in BOOLEAN :
         IF CreateSCOk(scStore, fault)
         THEN /\ scStore' = w.sc
              /\ w' = [w EXCEPT !.scRV = "set", !.scStale = FALSE, !.wrote = TRUE,
                                !.pc = "c_addfinsc"]
         ELSE /\ scStore' = scStore
              /\ w' = FailWith(RejectedSC(w, fault), <<"error">>)
    /\ UNCHANGED <<lscStore, pvars, cvars>>

\* addFinalizerIfNotExistsForSC in reconcileLSCCreateFunc
Create_AddFinalizerSC ==
    /\ w.pc = "c_addfinsc"
    /\ LET obj == [w.sc EXCEPT !.finalizers = AddFinalizer(@)] IN
       \E fault \in BOOLEAN :
         IF UpdateSCOk(scStore, obj, w.scRV, w.scStale, fault)
         THEN /\ scStore' = UpdateSCNew(scStore, obj)
              /\ w' = [w EXCEPT !.sc = UpdateSCNew(scStore, obj), !.scRV = "set",
                                !.scStale = FALSE, !.wrote = TRUE, !.pc = "phase"]
         ELSE /\ scStore' = scStore
              /\ w' = Finish(RejectedSC([w EXCEPT !.sc = obj], fault), TRUE, TRUE)
    /\ UNCHANGED <<lscStore, pvars, cvars>>

\* updateLocalStorageClassPhase
WithPhase(lsc, phase, reason) == [lsc EXCEPT !.status = [phase |-> phase, reason |-> reason]]

\* as Reconcile_PhaseCreated, with a rejected update returned without a
\* requeue
Reconcile_PhaseCreated_ErrNotRequeued ==
    /\ w.pc = "phase"
    /\ LET obj == WithPhase(w.lsc, CreatedStatusPhase, <<>>) IN
       \E fault \in BOOLEAN :
         IF UpdateLSCOk(lscStore, w.lscStale, fault)
         THEN /\ lscStore' = UpdateLSCNew(lscStore, obj)
              /\ w' = Finish([w EXCEPT !.lsc = obj, !.wrote = TRUE,
                                       !.phaseWritten = CreatedStatusPhase],
                              FALSE, FALSE)
         ELSE /\ lscStore' = lscStore
              /\ w' = Finish(Rejected(w, obj, fault), FALSE, TRUE)
    /\ UNCHANGED <<scStore, pvars, cvars>>

\* updateLocalStorageClassPhase(Created) at the end of the create and of the
\* update path
Reconcile_PhaseCreated ==
    /\ w.pc = "phase"
    /\ LET obj == WithPhase(w.lsc, CreatedStatusPhase, <<>>) IN
       \E fault \in BOOLEAN :
         IF UpdateLSCOk(lscStore, w.lscStale, fault)
         THEN /\ lscStore' = UpdateLSCNew(lscStore, obj)
              /\ w' = Finish([w EXCEPT !.lsc = obj, !.wrote = TRUE,
                                       !.phaseWritten = CreatedStatusPhase],
                              FALSE, FALSE)
         ELSE /\ lscStore' = lscStore
              /\ w' = Finish(Rejected(w, obj, fault), TRUE, TRUE)
    /\ UNCHANGED <<scStore, pvars, cvars>>

\* reconcileLSCUpdateFunc: validation, lookup and diff
Update_Validate ==
    /\ w.pc = "u_validate"
    /\ \E fault, marshalErr \in BOOLEAN :
         LET v == ValidateLocalStorageClass(w.scList, LvgList, fault, w.lsc)
             sc == FindSC(w.scList, w.lsc.name)
             d == HasLVGDiff(sc, w.lsc)
             w1 == [Faulted(w, fault) EXCEPT !.validated = v.valid]
         IN w' = IF ~v.valid THEN FailWith(w1, v.msg)
                 ELSE IF sc = NoObj THEN FailWith(w1, <<"error">>)
                 ELSE IF d = "err" THEN FailWith(w1, <<"error">>)
                 ELSE IF d = "panic" THEN Panicked(w1)
                 ELSE IF d = "diff"
                      THEN IF marshalErr THEN ConfigureFailed(w1)
                           ELSE DeleteStorageClassHead(w1, ConfigureStorageClass(w.lsc),
                                                       "none", "update")
                 ELSE [w1 EXCEPT !.sc = sc, !.scRV = "set", !.pc = "phase"]
    /\ UNCHANGED <<lscStore, scStore, pvars, cvars>>

\* deleteStorageClass: removeLocalSCFinalizerIfExistsForSC
DeleteStorageClass_RemoveFinalizer ==
    /\ w.pc = "sc_remfin"
    /\ LET obj == [w.sc EXCEPT !.finalizers = RemoveFinalizer(@)] IN
       \E fault \in BOOLEAN :
         IF UpdateSCOk(scStore, obj, w.scRV, w.scStale, fault)
         THEN /\ scStore' = UpdateSCNew(scStore, obj)
              /\ w' = [w EXCEPT !.sc = obj, !.scStale = FALSE, !.wrote = TRUE,
                                !.pc = "sc_delete"]
         ELSE /\ scStore' = scStore
              /\ w' = FailWith(RejectedSC([w EXCEPT !.sc = obj, !.scDelete = "err"], fault),
                                <<"error">>)
    /\ UNCHANGED <<lscStore, pvars, cvars>>

\* where a path goes on after deleteStorageClass returned nil
AfterDeleteStorageClass(wr) ==
    IF wr.cont = "delete" THEN DeleteTail(wr) ELSE [wr EXCEPT !.pc = "rec_create"]

\* as DeleteStorageClass_Delete, with the error of cl.Delete dropped
DeleteStorageClass_Delete_ErrDropped ==
    /\ w.pc = "sc_delete"
    /\ \E fault \in BOOLEAN :
         IF DeleteSCOk(scStore, fault)
         THEN /\ scStore' = DeleteSCNew(scStore)
              /\ w' = AfterDeleteStorageClass([w EXCEPT !.wrote = TRUE, !.scDelete = "ok"])
         ELSE /\ scStore' = scStore
              /\ w' = AfterDeleteStorageClass(RejectedSC([w EXCEPT !.scDelete = "err"], fault))
    /\ UNCHANGED <<lscStore, pvars, cvars>>

\* deleteStorageClass: cl.Delete
DeleteStorageClass_Delete ==
    /\ w.pc = "sc_delete"
    /\ \E fault \in BOOLEAN :
         IF DeleteSCOk(scStore, fault)
         THEN /\ scStore' = DeleteSCNew(scStore)
              /\ w' = AfterDeleteStorageClass([w EXCEPT !.wrote = TRUE, !.scDelete = "ok"])
         ELSE /\ scStore' = scStore
              /\ w' = FailWith(RejectedSC([w EXCEPT !.scDelete = "err"], fault), <<"error">>)
    /\ UNCHANGED <<lscStore, pvars, cvars>>

\* recreateStorageClass: cl.Create after deleteStorageClass
RecreateStorageClass_Create ==
    /\ w.pc = "rec_create"
    /\ \E fault \in BOOLEAN :
         IF CreateSCOk(scStore, fault)
         THEN /\ scStore' = w.sc
              /\ w' = [w EXCEPT !.scRV = "set", !.scStale = FALSE, !.wrote = TRUE,
                                !.pc = IF w.cont = "create" THEN "c_addfinsc" ELSE "phase"]
         ELSE /\ scStore' = scStore
              /\ w' = FailWith(RejectedSC(w, fault), <<"error">>)
    /\ UNCHANGED <<lscStore, pvars, cvars>>

\* reconcileLSCDeleteFunc: removeLocalSCFinalizerIfExistsForLSC
Delete_RemoveFinalizerLSC ==
    /\ w.pc = "d_remfinlsc"
    /\ LET obj == [w.lsc EXCEPT !.finalizers = RemoveFinalizer(@)] IN
       \E fault \in BOOLEAN :
         IF UpdateLSCOk(lscStore, w.lscStale, fault)
         THEN /\ lscStore' = UpdateLSCNew(lscStore, obj)
              /\ w' = Finish([w EXCEPT !.lsc = obj, !.wrote = TRUE], FALSE, FALSE)
         ELSE /\ lscStore' = lscStore
              /\ w' = FailWith(Rejected(w, obj, fault), <<"error">>)
    /\ UNCHANGED <<scStore, pvars, cvars>>

\* updateLocalStorageClassPhase(Failed, reason) on an error path; its own
\* error is logged (or returned in place of the first one).  After a failed
\* configureStorageClass the first error is returned with shouldRequeue
\* false when the update succeeds.
Reconcile_PhaseFailed ==
    /\ w.pc = "failphase"
    /\ LET obj == WithPhase(w.lsc, FailedStatusPhase, w.reason) IN
       \E fault \in BOOLEAN :
         IF UpdateLSCOk(lscStore, w.lscStale, fault)
         THEN /\ lscStore' = UpdateLSCNew(lscStore, obj)
              /\ w' = Finish([w EXCEPT !.lsc = obj, !.wrote = TRUE,
                                       !.phaseWritten = FailedStatusPhase],
                              ~w.cfgFailed, TRUE)
         ELSE /\ lscStore' = lscStore
              /\ w' = Finish(Rejected(w, obj, fault), TRUE, TRUE)
    /\ UNCHANGED <<scStore, pvars, cvars>>

\* Reconcile returns; the worker takes the next request
Reconcile_Return ==
    /\ w.pc = "done"
    /\ w' = IdleW
    /\ UNCHANGED <<lscStore, scStore, pvars, cvars>>

----------------------------------------------------------------------------
(* Other writers of the store: the user who owns the LocalStorageClass and *)
(* whoever manages StorageClasses of other provisioners.                   *)

\* the specs a user gives a LocalStorageClass
LscSpecs ==
    { [type |-> Thick, lvgs |-> <<Lvg("vg1", NoThin)>>],
      [type |-> Thick, lvgs |-> <<Lvg("vg1", NoThin), Lvg("vg2", NoThin)>>],
      [type |-> Thin, lvgs |-> <<Lvg("vg1", ThinPool("tp1"))>>],
      [type |-> Thin, lvgs |-> <<Lvg("vg1", NoThin)>>],
      [type |-> Thin, lvgs |-> <<Lvg("vg1", ThinPool("tp9"))>>],
      [type |-> Thick, lvgs |-> <<Lvg("vg9", NoThin)>>],
      [type |-> Thick, lvgs |-> <<Lvg("vg1", ThinPool("tp1"))>>] }

\* a write of someone else, as the running invocation is affected by it
Touched(wr, lscWritten, scWritten) ==
    IF wr.pc = "idle" THEN wr
    ELSE [wr EXCEPT !.interf = TRUE, !.lscStale = @ \/ lscWritten, !.scStale = @ \/ scWritten]

UserCreateLSC ==
    /\ lscStore = NoObj
    /\ \E spec \in LscSpecs :
         lscStore' = [name |-> LscName, spec |-> spec, finalizers |-> <<>>,
                      deletion |-> FALSE, status |-> NoStatus]
    /\ w' = Touched(w, TRUE, FALSE)
    /\ UNCHANGED <<scStore, pvars, cvars>>

UserUpdateLSC ==
    /\ lscStore # NoObj
    /\ ~lscStore.deletion
    /\ \E spec \in LscSpecs \ {lscStore.spec} : lscStore' = [lscStore EXCEPT !.spec = spec]
    /\ w' = Touched(w, TRUE, FALSE)
    /\ UNCHANGED <<scStore, pvars, cvars>>

UserDeleteLSC ==
    /\ lscStore # NoObj
    /\ ~lscStore.deletion
    /\ lscStore' = Settle([lscStore EXCEPT !.deletion = TRUE])
    /\ w' = Touched(w, TRUE, FALSE)
    /\ UNCHANGED <<scStore, pvars, cvars>>

\* a StorageClass of another provisioner with the LocalStorageClass's name
ForeignSC ==
    [ name |-> LscName, provisioner |-> ForeignProvisioner,
      params |-> [type |-> "", lvgs |-> EmptyBlob], finalizers |-> <<>>, deletion |-> FALSE ]

UserCreateSC ==
    /\ scStore = NoObj
    /\ scStore' = ForeignSC
    /\ w' = Touched(w, FALSE, TRUE)
    /\ UNCHANGED <<lscStore, pvars, cvars>>

UserDeleteSC ==
    /\ scStore # NoObj
    /\ ~scStore.deletion
    /\ scStore' = DeleteSCNew(scStore)
    /\ w' = Touched(w, FALSE, TRUE)
    /\ UNCHANGED <<lscStore, pvars, cvars>>

----------------------------------------------------------------------------
(* The reconciler with its environment.                                    *)

NoInput == [none |-> "input"]

\* no CreateVolume call is made
IdleRpc ==
    [ pc |-> "idle", preferredNode |-> "", selectedLVG |-> NoObj, llvSpec |-> NoObj,
      attempts |-> 0, cancelled |-> FALSE, created |-> FALSE, disturbed |-> FALSE,
      probed |-> FALSE, freeSpace |-> 0, llvRead |-> NoObj, free0 |-> 0,
      updated |-> FALSE, deletes |-> <<>>, resp |-> NoObj ]

NoCSI ==
    /\ req = NoInput
    /\ lvgFree = NoInput
    /\ llv = NoObj
    /\ rpc = IdleRpc
    /\ resps = <<>>

Init ==
    /\ lscStore = NoObj
    /\ scStore = NoObj
    /\ w = IdleW
    /\ idIn = NoInput
    /\ idOut = NoInput
    /\ NoCSI

WorkerNext ==
    \/ Reconcile_Get
    \/ Reconcile_List
    \/ Create_AddFinalizerLSC
    \/ Create_Validate
    \/ Create_CreateSC
    \/ Create_AddFinalizerSC
    \/ Update_Validate
    \/ DeleteStorageClass_RemoveFinalizer
    \/ DeleteStorageClass_Delete
    \/ RecreateStorageClass_Create
    \/ Delete_RemoveFinalizerLSC
    \/ Reconcile_PhaseCreated
    \/ Reconcile_PhaseFailed
    \/ Reconcile_Return

EnvNext ==
    \/ UserCreateLSC
    \/ UserUpdateLSC
    \/ UserDeleteLSC
    \/ UserCreateSC
    \/ UserDeleteSC

Next == WorkerNext \/ EnvNext

Spec == Init /\ [][Next]_vars

----------------------------------------------------------------------------
(* identifyReconcileFunc on its own: every LocalStorageClass with up to    *)
(* MaxLvgs bindings against every StorageClass list that holds at most one *)
(* class of its name (names are unique in the store).                      *)

VgNames == {"vg1", "vg2"}
ThinValues == {NoThin, ThinPool("tp1")}
Bindings == {Lvg(n, t) : n \in VgNames, t \in ThinValues}
BindingLists == UNION {[1..n -> Bindings] : n \in 0..MaxLvgs}

Statuses ==
    { NoStatus,
      [phase |-> CreatedStatusPhase, reason |-> <<>>],
      [phase |-> FailedStatusPhase, reason |-> <<"error">>] }

IdentifyLSCs ==
    { [name |-> LscName, spec |-> [type |-> t, lvgs |-> l], finalizers |-> <<>>,
       deletion |-> d, status |-> st] :
         t \in {Thin, Thick}, l \in BindingLists, d \in BOOLEAN, st \in Statuses }

\* the blobs a StorageClass of this provisioner may carry under the
\* lvm-volume-groups key
Blobs == {EmptyBlob, MalformedBlob} \cup {YamlMarshal(l) : l \in BindingLists}

SameNamedSCs ==
    {ForeignSC} \cup
    { [name |-> LscName, provisioner |-> LocalStorageClassProvisioner,
       params |-> [type |-> Thick, lvgs |-> b],
       finalizers |-> <<LocalStorageClassFinalizerName>>, deletion |-> FALSE] : b \in Blobs }

IdentifySCLists ==
    {<<>>, <<UnrelatedSC>>} \cup {<<sc>> : sc \in SameNamedSCs}
                           \cup {<<UnrelatedSC, sc>> : sc \in SameNamedSCs}

InitIdentify ==
    /\ lscStore = NoObj
    /\ scStore = NoObj
    /\ w = IdleW
    /\ idIn \in [scList : IdentifySCLists, lsc : IdentifyLSCs]
    /\ idOut = NoInput
    /\ NoCSI

Identify ==
    /\ idOut = NoInput
    /\ idOut' = IdentifyReconcileFunc(idIn.scList, idIn.lsc)
    /\ UNCHANGED <<rvars, idIn, cvars>>

NextIdentify == Identify

SpecIdentify == InitIdentify /\ [][NextIdentify]_vars

----------------------------------------------------------------------------
(* The CSI controller service of sds-local-volume-csi: CreateVolume.  The  *)
(* helpers of package utils are modelled from their contracts.  Sizes are  *)
(* counted in units of the resize delta.                                   *)

Lvm == "lvm"
BindingModeI == "Immediate"
BindingModeWFFC == "WaitForFirstConsumer"
LVMTypeThick == "Thick"
LVMTypeThin == "Thin"
VolumeName == "vol1"

\* internal.ResizeDelta, the convergence tolerance
ResizeDelta == 1

\* bounds: the attempt budget of the convergence poll, the number of
\* CreateVolume calls, the largest reported free capacity and the largest
\* requested size
MaxAttempts == 2
MaxCalls == 2
MaxFree == 2
MaxSize == 2

\* the volume groups named by the storage class's parameters
StorageClassLVGs ==
    << [name |-> "vgA", node |-> "node1", poolName |-> "poolX",
        actualVGNameOnTheNode |-> "vg-a"],
       [name |-> "vgB", node |-> "node2", poolName |-> "poolY",
        actualVGNameOnTheNode |-> "vg-b"] >>

CandidateNames == {StorageClassLVGs[i].name : i \in 1..Len(StorageClassLVGs)}

\* the requests that pass the checks of the request: valid name, capability
\* and type; either volume type and binding mode; with or without a
\* preferred topology segment.  accessibility says whether the request
\* carries accessibility requirements at all (the pointer is not nil);
\* preferred is the node of the first preferred segment, "" when the list of
\* preferred segments is empty.
ValidRequests ==
    [ name : {VolumeName}, capabilities : {TRUE}, type : {Lvm},
      lvmType : {LVMTypeThick, LVMTypeThin},
      bindingMode : {BindingModeI, BindingModeWFFC},
      lvgParam : {"set"},
      size : 1..MaxSize,
      preferred : {"", "node1", "node2"},
      accessibility : {TRUE} ]

\* the requests with or without a name, a capability descriptor, a type
\* parameter (lvm, another one, or none) and a volume-group parameter
CheckedRequests ==
    [ name : {VolumeName, ""}, capabilities : BOOLEAN, type : {Lvm, "nfs", ""},
      lvmType : {LVMTypeThick},
      bindingMode : {BindingModeI},
      lvgParam : {"set", ""},
      size : {1},
      preferred : {""},
      accessibility : {TRUE} ]

\* the WaitForFirstConsumer requests that name a node owning no candidate,
\* and those that carry no accessibility requirements
UnplacedRequests ==
    { r \in [ name : {VolumeName}, capabilities : {TRUE}, type : {Lvm},
              lvmType : {LVMTypeThick, LVMTypeThin},
              bindingMode : {BindingModeWFFC},
              lvgParam : {"set"},
              size : {1},
              preferred : {"", "node3"},
              accessibility : BOOLEAN ] :
        r.accessibility <=> r.preferred # "" }

Requests == ValidRequests \cup CheckedRequests \cup UnplacedRequests

\* utils.GetNodeWithMaxFreeSpace: the node of the candidate with the greatest
\* free capacity (the first one on a tie) and that capacity
RECURSIVE MaxFreeFrom(_, _, _, _)
MaxFreeFrom(i, best, lvgs, free) ==
    IF i > Len(lvgs) THEN best
    ELSE IF free[lvgs[i].name] > free[lvgs[best].name] THEN MaxFreeFrom(i + 1, i, lvgs, free)
    ELSE MaxFreeFrom(i + 1, best, lvgs, free)

GetNodeWithMaxFreeSpace(lvgs, free) ==
    LET best == MaxFreeFrom(2, 1, lvgs, free) IN
    [node |-> lvgs[best].node, freeSpace |-> free[lvgs[best].name]]

\* utils.SelectLVG: the first candidate owned by the node, or NoObj (error)
RECURSIVE SelectLVGFrom(_, _, _)
SelectLVGFrom(i, lvgs, node) ==
    IF i > Len(lvgs) THEN NoObj
    ELSE IF lvgs[i].node = node THEN lvgs[i]
    ELSE SelectLVGFrom(i + 1, lvgs, node)

SelectLVG(lvgs, node) == SelectLVGFrom(1, lvgs, node)

\* utils.GetLLVSpec
GetLLVSpec(lvName, selectedLVG, lvmType, size) ==
    [ name |-> lvName, lvg |-> selectedLVG.name, type |-> lvmType,
      poolName |-> IF lvmType = LVMTypeThin THEN selectedLVG.poolName ELSE "",
      size |-> size ]

\* the stored LVMLogicalVolume of a spec, before the node agent applied it
NewLLV(llvSpec) == [spec |-> llvSpec, applied |-> FALSE, actualSize |-> 0]

Abs(x) == IF x < 0 THEN -x ELSE x

\* the convergence test of utils.WaitForStatusUpdate
Converged(obj, size) == obj.applied /\ Abs(obj.actualSize - size) <= ResizeDelta

\* the keys of the storage-class parameters, of the volume context and of
\* a topology segment
TypeKey == "type"
LvmTypeKey == "lvm-type"
BindingModeKey == "volume-binding-mode"
LvmVolumeGroupKey == "lvm-volume-groups"
SubPath == "subPath"
VGNameKey == "vgname"
ThinPoolNameKey == "thinPoolName"
TopologyKey == "node"

\* request.GetParameters()
Parameters(r) ==
    (TypeKey :> r.type) @@ (LvmTypeKey :> r.lvmType) @@
    (BindingModeKey :> r.bindingMode) @@ (LvmVolumeGroupKey :> r.lvgParam)

\* as VolumeCtx, with the thin-pool key left out for a Thick volume
VolumeCtx_ThinKeyOmitted(r, wr) ==
    (IF wr.llvSpec.type = LVMTypeThin
     THEN (ThinPoolNameKey :> wr.llvSpec.poolName) ELSE <<>>) @@
    (VGNameKey :> wr.selectedLVG.actualVGNameOnTheNode) @@
    (SubPath :> r.name) @@ Parameters(r)

\* the volume context: the parameters, then the three keys set over them
VolumeCtx(r, wr) ==
    (ThinPoolNameKey :> IF wr.llvSpec.type = LVMTypeThin THEN wr.llvSpec.poolName ELSE "") @@
    (VGNameKey :> wr.selectedLVG.actualVGNameOnTheNode) @@
    (SubPath :> r.name) @@ Parameters(r)

\* the results of CreateVolume
ErrResp(code) == [ok |-> FALSE, err |-> code, volume |-> NoObj]
\* the call does not return: nil pointer dereference of
\* request.AccessibilityRequirements
PanicResp == [ok |-> FALSE, err |-> "", volume |-> NoObj, panic |-> TRUE]
OkResp(r, wr) ==
    [ ok |-> TRUE, err |-> "",
      volume |-> [ volumeId |-> r.name, capacityBytes |-> r.size,
                   context |-> VolumeCtx(r, wr),
                   topology |-> << (TopologyKey :> wr.preferredNode) >> ] ]

\* the error of the capacity check, whose message names both sizes
CapacityErr(requested, available) ==
    [ok |-> FALSE, err |-> "Internal", volume |-> NoObj,
     requested |-> requested, available |-> available]

Returns(wr, resp) == [wr EXCEPT !.pc = "done", !.resp = resp]

\* as ExceedsFreeSpace, with the resize delta tolerated
ExceedsFreeSpace_UpToDelta(r, freeSpace) ==
    r.lvmType = LVMTypeThick /\ r.size > freeSpace + ResizeDelta

\* the capacity check of the Immediate binding mode
ExceedsFreeSpace(r, freeSpace) ==
    r.lvmType = LVMTypeThick /\ r.size > freeSpace
Disturbed(wr, fault) == [wr EXCEPT !.disturbed = @ \/ fault \/ wr.cancelled]

\* as RequestRejected, without the check of the volume-group parameter
RequestRejected_LvgParamUnchecked(r) ==
    r.type # Lvm \/ r.name = "" \/ ~r.capabilities

\* the checks of the request, each answered with InvalidArgument
RequestRejected(r) ==
    r.type # Lvm \/ r.name = "" \/ ~r.capabilities \/ r.lvgParam = ""

\* CreateVolume up to the submission of the LVMLogicalVolume: the checks of
\* the request, the read of the candidates, the choice of the node and of the
\* volume group
CreateVolume_Select ==
    /\ rpc.pc = "idle"
    /\ Len(resps) < MaxCalls
    /\ \E fault \in BOOLEAN :
         LET max == GetNodeWithMaxFreeSpace(StorageClassLVGs, lvgFree)
             wr == Disturbed(rpc, fault)
             wp == IF req.bindingMode = BindingModeI
                   THEN [wr EXCEPT !.probed = TRUE, !.freeSpace = max.freeSpace]
                   ELSE wr
             preferredNode == IF req.bindingMode = BindingModeI THEN max.node
                              ELSE IF req.bindingMode = BindingModeWFFC THEN req.preferred
                              ELSE ""
             selectedLVG == SelectLVG(StorageClassLVGs, preferredNode)
         IN rpc' =
              IF RequestRejected(req) THEN Returns(rpc, ErrResp("InvalidArgument"))
              ELSE IF fault THEN Returns(wr, ErrResp("Internal"))
              ELSE IF req.bindingMode = BindingModeI /\ ExceedsFreeSpace(req, max.freeSpace)
                   THEN Returns(wp, CapacityErr(req.size, max.freeSpace))
              ELSE IF req.bindingMode = BindingModeWFFC /\ ~req.accessibility
                   THEN Returns(wp, PanicResp)
              ELSE IF selectedLVG = NoObj THEN Returns(wp, ErrResp("Internal"))
              ELSE [wp EXCEPT !.pc = "create", !.preferredNode = preferredNode,
                              !.selectedLVG = selectedLVG,
                              !.llvSpec = GetLLVSpec(req.name, selectedLVG, req.lvmType, req.size)]
    /\ UNCHANGED <<rvars, pvars, req, lvgFree, llv, resps>>

\* utils.CreateLVMLogicalVolume; AlreadyExists is skipped over
CreateVolume_CreateLLV ==
    /\ rpc.pc = "create"
    /\ \E fault \in BOOLEAN :
         LET wr == Disturbed(rpc, fault) IN
         IF fault \/ rpc.cancelled
         THEN /\ llv' = llv
              /\ rpc' = Returns(wr, ErrResp("CreateLVMLogicalVolume"))
         ELSE IF llv # NoObj
         THEN /\ llv' = llv
              /\ rpc' = [wr EXCEPT !.pc = "wait"]
         ELSE /\ llv' = NewLLV(rpc.llvSpec)
              /\ rpc' = [wr EXCEPT !.pc = "wait", !.created = TRUE]
    /\ UNCHANGED <<rvars, pvars, req, lvgFree, resps>>

\* utils.WaitForStatusUpdate: one attempt of the convergence poll
CreateVolume_WaitForStatusUpdate ==
    /\ rpc.pc = "wait"
    /\ \E fault \in BOOLEAN :
         LET wr == Disturbed(rpc, fault) IN
         rpc' = IF fault \/ rpc.cancelled
                THEN [wr EXCEPT !.pc = "delete", !.resp = ErrResp("WaitForStatusUpdate")]
                ELSE IF llv = NoObj
                THEN [wr EXCEPT !.pc = "delete", !.resp = ErrResp("NotFound")]
                ELSE IF Converged(llv, req.size)
                THEN Returns(wr, OkResp(req, wr))
                ELSE IF rpc.attempts + 1 >= MaxAttempts
                THEN [wr EXCEPT !.pc = "delete", !.resp = ErrResp("Timeout")]
                ELSE [wr EXCEPT !.attempts = @ + 1]
    /\ UNCHANGED <<rvars, pvars, req, lvgFree, llv, resps>>

\* utils.DeleteLVMLogicalVolume after a failed poll; its error is logged
CreateVolume_DeleteLLV ==
    /\ rpc.pc = "delete"
    /\ \E fault \in BOOLEAN :
         /\ llv' = IF fault \/ rpc.cancelled THEN llv ELSE NoObj
         /\ rpc' = [Disturbed(rpc, fault) EXCEPT !.pc = "done"]
    /\ UNCHANGED <<rvars, pvars, req, lvgFree, resps>>

\* CreateVolume returns
CreateVolume_Return ==
    /\ rpc.pc = "done"
    /\ resps' = Append(resps, rpc.resp @@ [disturbed |-> rpc.disturbed,
                                           created |-> rpc.created])
    /\ rpc' = IdleRpc
    /\ UNCHANGED <<rvars, pvars, req, lvgFree, llv>>

\* the caller's deadline expires or the call is cancelled
ContextCancelled ==
    /\ rpc.pc \in {"create", "wait", "delete"}
    /\ ~rpc.cancelled
    /\ rpc' = [rpc EXCEPT !.cancelled = TRUE]
    /\ UNCHANGED <<rvars, pvars, req, lvgFree, llv, resps>>

\* the node agent creates the logical volume: the actual size is the
\* requested one, or one extent more; a Thick volume takes its size from
\* the free capacity of its group
AgentApplies ==
    /\ llv # NoObj
    /\ ~llv.applied
    /\ llv.spec.type = LVMTypeThick => lvgFree[llv.spec.lvg] >= llv.spec.size
    /\ \E extra \in {0, ResizeDelta} :
         llv' = [llv EXCEPT !.applied = TRUE, !.actualSize = llv.spec.size + extra]
    /\ lvgFree' = IF llv.spec.type = LVMTypeThick
                  THEN [lvgFree EXCEPT ![llv.spec.lvg] = @ - llv.spec.size]
                  ELSE lvgFree
    /\ UNCHANGED <<rvars, pvars, req, rpc, resps>>

\* another volume takes capacity of a candidate
OtherVolumeAllocated ==
    /\ \E g \in CandidateNames :
         /\ lvgFree[g] > 0
         /\ lvgFree' = [lvgFree EXCEPT ![g] = @ - 1]
    /\ UNCHANGED <<rvars, pvars, req, llv, rpc, resps>>

\* the LVMLogicalVolumes an earlier CreateVolume left, applied by the agent
StoredLLVs ==
    { [spec |-> GetLLVSpec(VolumeName, StorageClassLVGs[i], t, s),
       applied |-> TRUE, actualSize |-> a] :
         i \in 1..Len(StorageClassLVGs), t \in {LVMTypeThick, LVMTypeThin},
         s \in 1..MaxSize, a \in 1..(MaxSize + 1) }

\* the store a request is made on: empty, or, for the requests that exercise
\* the checks of the request, holding a volume of the name
StoredBefore(r) == IF r \in ValidRequests THEN {NoObj} ELSE {NoObj} \cup StoredLLVs

InitCSI ==
    /\ lscStore = NoObj
    /\ scStore = NoObj
    /\ w = IdleW
    /\ idIn = NoInput
    /\ idOut = NoInput
    /\ req \in Requests
    /\ lvgFree \in [CandidateNames -> 0..MaxFree]
    /\ llv \in StoredBefore(req)
    /\ rpc = IdleRpc
    /\ resps = <<>>

NextCSI ==
    \/ CreateVolume_Select
    \/ CreateVolume_CreateLLV
    \/ CreateVolume_WaitForStatusUpdate
    \/ CreateVolume_DeleteLLV
    \/ CreateVolume_Return
    \/ ContextCancelled
    \/ AgentApplies
    \/ OtherVolumeAllocated

SpecCSI == InitCSI /\ [][NextCSI]_vars

----------------------------------------------------------------------------
(* Claims.                                                                 *)

\* a step of the reconcile worker (every such step moves w.pc, and no step
\* of another writer does)
WorkerStep == w'.pc # w.pc

ForeignStored == scStore # NoObj /\ ~OwnedBy(scStore)

\* C1: a StorageClass of another provisioner is never updated, deleted or
\* replaced by a step of the reconciler, whatever the interleaving with the
\* other writers of the store.
C1_ForeignNeverTouched ==
    [][WorkerStep /\ ForeignStored => scStore' = scStore]_vars

OwnStored == scStore # NoObj /\ OwnedBy(scStore)

\* C2: whenever the LocalStorageClass is gone from the store, no
\* StorageClass of its name owned by this provisioner exists (the finalizer
\* of the LocalStorageClass outlives its StorageClass).
C2_NoOrphanedSC == lscStore = NoObj => ~OwnStored

\* C2 witness: the delete path has just removed the finalizer of a
\* LocalStorageClass whose StorageClass it deleted in the same invocation.
C2_Witness ==
    /\ w.pc = "done" /\ w.recType = DeleteReconcile /\ ~w.err
    /\ FindSC(w.scList, LscName) # NoObj /\ OwnedBy(FindSC(w.scList, LscName))
    /\ lscStore = NoObj /\ scStore = NoObj

\* the invocation that has just ended ran undisturbed: no store call failed
\* for a reason of the store's own and nobody else wrote the store meanwhile
Undisturbed == w.pc = "done" /\ w.ran /\ ~w.faulted /\ ~w.interf

ListedSC == FindSC(w.scList, LscName)
LscValid == ValidateLocalStorageClass(w.scList, LvgList, FALSE, w.lsc).valid
StoredBindings == GetLVGFromSCParams(scStore)

\* C5, as stated: when the bindings of a LocalStorageClass differ from those
\* of its StorageClass, which carries the controller finalizer, an
\* undisturbed reconcile ends with a StorageClass that carries the new
\* bindings.
C5_RecreatedWithNewBindings ==
    ( /\ Undisturbed /\ w.recType = UpdateReconcile /\ LscValid
      /\ HasLVGDiff(ListedSC, w.lsc) = "diff"
      /\ HasFinalizer(ListedSC.finalizers) /\ ~ListedSC.deletion )
    => /\ ~w.err
       /\ OwnStored
       /\ scStore.params.lvgs = YamlMarshal(lscStore.spec.lvgs)

\* C6: an undisturbed reconcile of a valid LocalStorageClass with no
\* deletion timestamp, no StorageClass of its name and no status is a Create
\* and ends with the StorageClass created with the spec's bindings, phase
\* Created, the finalizer on both objects and no requeue.
C6_CreateScenario ==
    ( /\ Undisturbed /\ ~w.lsc.deletion /\ w.status0 = NoStatus
      /\ ListedSC = NoObj /\ LscValid )
    => /\ w.recType = CreateReconcile
       /\ ~w.requeue /\ ~w.err /\ ~w.panic
       /\ OwnStored
       /\ ~StoredBindings.err /\ StoredBindings.lvgs = lscStore.spec.lvgs
       /\ lscStore.status # NoStatus /\ lscStore.status.phase = CreatedStatusPhase
       /\ HasFinalizer(lscStore.finalizers) /\ HasFinalizer(scStore.finalizers)

\* C6 witness: such a Create of a Thin spec has ended.
C6_Witness ==
    /\ Undisturbed /\ w.status0 = NoStatus /\ ListedSC = NoObj /\ LscValid
    /\ w.recType = CreateReconcile /\ w.lsc.spec.type = Thin
    /\ OwnStored /\ lscStore.status # NoStatus

\* the case of C10: no deletion timestamp, a recorded phase other than
\* Failed, a listed StorageClass of this provisioner with the spec's bindings
C10_Converged ==
    /\ w.pc = "done" /\ w.ran
    /\ ~w.lsc.deletion
    /\ w.status0 # NoStatus /\ w.status0.phase # FailedStatusPhase
    /\ ListedSC # NoObj /\ OwnedBy(ListedSC)
    /\ ~GetLVGFromSCParams(ListedSC).err
    /\ GetLVGFromSCParams(ListedSC).lvgs = w.lsc.spec.lvgs

C10_NoOp == ~w.wrote /\ ~w.requeue /\ ~w.err /\ ~w.panic

\* C10, as stated: in that case runEventReconcile writes nothing and
\* returns (false, nil).
C10_Original == C10_Converged => C10_NoOp

\* for Thin type every binding of the spec names a thin pool
ThinPoolsNamed(lsc) ==
    lsc.spec.type = Thin => \A i \in 1..Len(lsc.spec.lvgs) : lsc.spec.lvgs[i].thin # NoThin

\* C10, amended: in that case, and when for Thin type every binding names a
\* thin pool, runEventReconcile writes nothing and returns (false, nil).
C10_NoOpWhenConverged == C10_Converged /\ ThinPoolsNamed(w.lsc) => C10_NoOp

\* C10 witness: a converged Thin LocalStorageClass was reconciled again.
C10_Witness == C10_Converged /\ ThinPoolsNamed(w.lsc) /\ w.lsc.spec.type = Thin

----------------------------------------------------------------------------
(* Claims about identifyReconcileFunc, under SpecIdentify.                 *)

Identified == idOut # NoInput
IdSC == FindSC(idIn.scList, LscName)
Returned(t) == idOut = IdRes(t, FALSE)

\* C7: identifyReconcileFunc returns Delete, and no error, for every
\* LocalStorageClass with a deletion timestamp, whatever the listed
\* StorageClasses, the bindings and the status are.
C7_DeleteWhenMarked == Identified /\ idIn.lsc.deletion => Returned(DeleteReconcile)

\* C7 witness: Delete was returned with a same-named StorageClass of another
\* provisioner listed (an error of the update predicate otherwise).
C7_Witness ==
    /\ Identified /\ idIn.lsc.deletion /\ Returned(DeleteReconcile)
    /\ IdSC # NoObj /\ ~OwnedBy(IdSC) /\ idIn.lsc.status = NoStatus

\* C8, as stated: Create is returned exactly when there is no deletion
\* timestamp, no StorageClass of the name is listed and no status is
\* recorded.
C8_Original ==
    Identified =>
        ( Returned(CreateReconcile) <=>
            ~idIn.lsc.deletion /\ IdSC = NoObj /\ idIn.lsc.status = NoStatus )

\* C8, amended: Create is returned exactly when there is no deletion
\* timestamp and either no StorageClass of the name is listed or no status is
\* recorded.
C8_CreateIff ==
    Identified =>
        ( Returned(CreateReconcile) <=>
            ~idIn.lsc.deletion /\ (IdSC = NoObj \/ idIn.lsc.status = NoStatus) )

\* C8 witness: Create was returned with a StorageClass of the name listed.
C8_Witness ==
    /\ Identified /\ Returned(CreateReconcile)
    /\ IdSC # NoObj /\ OwnedBy(IdSC) /\ idIn.lsc.status = NoStatus

\* the decoded bindings of the listed StorageClass differ from the spec's
BindingsDiffer ==
    /\ ~GetLVGFromSCParams(IdSC).err
    /\ GetLVGFromSCParams(IdSC).lvgs # idIn.lsc.spec.lvgs

\* C9: Update is returned exactly when there is no deletion timestamp, a
\* StorageClass of the name owned by this provisioner is listed, and its
\* decoded bindings differ from the spec's or the recorded phase is Failed.
C9_UpdateIff ==
    Identified =>
        ( Returned(UpdateReconcile) <=>
            /\ ~idIn.lsc.deletion
            /\ IdSC # NoObj /\ OwnedBy(IdSC)
            /\ \/ BindingsDiffer
               \/ idIn.lsc.status # NoStatus /\ idIn.lsc.status.phase = FailedStatusPhase )

\* C9 witness: the evaluation ended in the nil dereference of hasLVGDiff, on
\* a Thin LocalStorageClass with a recorded status and a binding without a
\* thin pool whose StorageClass names a thin pool for it.
C9_Witness ==
    /\ Identified /\ idOut = IdPanic
    /\ ~idIn.lsc.deletion /\ idIn.lsc.status # NoStatus
    /\ IdSC # NoObj /\ OwnedBy(IdSC) /\ BindingsDiffer
    /\ idIn.lsc.spec.type = Thin /\ Len(idIn.lsc.spec.lvgs) = 1

----------------------------------------------------------------------------
(* Claims about CreateVolume, under SpecCSI.                               *)

\* C3: when CreateVolume is called twice with the same request, the first
\* call succeeded and no store call of the second failed, the second call
\* succeeds and returns the same volume id, context and topology.
C3_Idempotent ==
    Len(resps) >= 2 /\ resps[1].ok /\ ~resps[2].disturbed
        => resps[2].ok /\ resps[2].volume = resps[1].volume

\* C3 witness: both calls succeeded, no store call of the second failed, no
\* other volume was allocated, and the second response names another volume
\* group and node than the first, which are not those of the stored
\* LVMLogicalVolume.
C3_Witness ==
    /\ Len(resps) = 2 /\ resps[1].ok /\ resps[2].ok /\ ~resps[2].disturbed
    /\ resps[2].volume.context[VGNameKey] # resps[1].volume.context[VGNameKey]
    /\ resps[2].volume.topology # resps[1].volume.topology
    /\ llv # NoObj /\ llv.spec.lvg = "vgA"
    /\ resps[1].volume.context[VGNameKey] = "vg-a"
    /\ lvgFree["vgA"] = 0 /\ lvgFree["vgB"] = 2

\* CreateVolume is about to return the error of the convergence poll
PollFailed ==
    /\ rpc.pc = "done" /\ ~rpc.resp.ok
    /\ rpc.resp.err \in {"WaitForStatusUpdate", "NotFound", "Timeout"}

\* C4: when CreateVolume returns the error of the convergence poll, no
\* LVMLogicalVolume of the request's name is left in the store.
C4_NoOrphanedLLV == PollFailed => llv = NoObj

\* C4 witness: the poll of the invocation that created the
\* LVMLogicalVolume timed out, its delete failed and the call is about to
\* return with the LVMLogicalVolume still stored.
C4_Witness ==
    /\ PollFailed /\ rpc.resp.err = "Timeout" /\ rpc.created
    /\ llv # NoObj /\ ~llv.applied

----------------------------------------------------------------------------
(* The delete path: the finalizer of the LocalStorageClass is the last     *)
(* thing to go.                                                            *)

\* a step that takes the controller finalizer off the stored
\* LocalStorageClass (the store then removes an object marked for deletion)
FinalizerRemoved ==
    /\ lscStore # NoObj
    /\ HasFinalizer(lscStore.finalizers)
    /\ lscStore' = NoObj \/ ~HasFinalizer(lscStore'.finalizers)

\* no StorageClass of this provisioner was listed under the name, or
\* deleteStorageClass returned nil in this invocation
SCDealtWith == ListedSC = NoObj \/ ~OwnedBy(ListedSC) \/ w.scDelete = "ok"

DeleteFailed == w.pc = "done" /\ w.recType = DeleteReconcile /\ w.scDelete = "err"
FinalizerKept == lscStore # NoObj /\ HasFinalizer(lscStore.finalizers)
FailedRecorded ==
    /\ lscStore # NoObj
    /\ lscStore.status # NoStatus
    /\ lscStore.status.phase = FailedStatusPhase

----------------------------------------------------------------------------
(* How runEventReconcile returns an error.                                 *)

\* runEventReconcile has returned an error
EndedWithError == w.pc = "done" /\ w.ran /\ w.err

\* C12: every reconcile invocation that ends with an error, whichever path
\* it took (classification, create, update, delete), has written phase
\* Failed with a non-empty reason before it returned.
C12_FailedBeforeError ==
    EndedWithError => w.phaseWritten = FailedStatusPhase /\ w.reason # <<>>

C12_Witness ==
    EndedWithError /\ w.phaseWritten = FailedStatusPhase /\ w.reason # <<>>

C13_OnlyConfigure == EndedWithError /\ ~w.cfgFailed => w.requeue

----------------------------------------------------------------------------
(* Phase Created and the validation of the same invocation.                *)

BindingsListed(lsc) ==
    \A i \in 1..Len(lsc.spec.lvgs) : lsc.spec.lvgs[i].name \in LvgNames(LvgList)

ThinPoolsExist(lsc) ==
    \A i \in 1..Len(lsc.spec.lvgs) :
        LET b == lsc.spec.lvgs[i] IN
        /\ b.thin # NoThin
        /\ b.name \in LvgNames(LvgList)
        /\ \E k \in 1..Len(LvgByName(LvgList, b.name).thinPools) :
              LvgByName(LvgList, b.name).thinPools[k] = b.thin.poolName

NoThinPools(lsc) == \A i \in 1..Len(lsc.spec.lvgs) : lsc.spec.lvgs[i].thin = NoThin

\* C19: whenever a reconcile invocation records phase Created (on the
\* create or on the update path), validateLocalStorageClass returned true in
\* that invocation: every binding names a listed volume group, for Thin
\* every binding names a thin pool of that group's status, for Thick no
\* binding names a thin pool.
C19_CreatedOnlyIfValid ==
    w.phaseWritten = CreatedStatusPhase =>
        /\ w.recType \in {CreateReconcile, UpdateReconcile}
        /\ w.validated
        /\ BindingsListed(w.lsc)
        /\ IF w.lsc.spec.type = Thin THEN ThinPoolsExist(w.lsc) ELSE NoThinPools(w.lsc)

C19_Witness ==
    /\ w.phaseWritten = CreatedStatusPhase
    /\ w.recType = UpdateReconcile
    /\ w.lsc.spec.type = Thin
    /\ lscStore # NoObj /\ lscStore.status # NoStatus
    /\ lscStore.status.phase = CreatedStatusPhase

----------------------------------------------------------------------------
(* validateLocalStorageClass on its own: every LocalStorageClass with up   *)
(* to MaxLvgs bindings against a few inventories of volume groups.         *)

ValidateVgNames == {"vg1", "vg2", "vg3", "vg9"}
ValidateThinValues == {NoThin, ThinPool("tp1"), ThinPool("tp9")}
ValidateBindings == {Lvg(n, t) : n \in ValidateVgNames, t \in ValidateThinValues}
ValidateBindingLists == UNION {[1..n -> ValidateBindings] : n \in 0..MaxLvgs}

ValidateLSCs ==
    { [name |-> LscName, spec |-> [type |-> t, lvgs |-> l],
       finalizers |-> <<LocalStorageClassFinalizerName>>, deletion |-> FALSE,
       status |-> NoStatus] : t \in {Thin, Thick}, l \in ValidateBindingLists }

\* an inventory in which vg1 has both thin pools and vg2 spans two nodes
LvgListOther ==
    << [name |-> "vg1", nodes |-> <<"node1">>, thinPools |-> <<"tp1", "tp9">>],
       [name |-> "vg2", nodes |-> <<"node2", "node1">>, thinPools |-> <<"tp1">>] >>

ValidateLvgLists == {LvgList, LvgListOther}

ValidateSCLists == {<<>>, <<UnrelatedSC>>, <<UnrelatedSC, ForeignSC>>}

InitValidate ==
    /\ lscStore = NoObj
    /\ scStore = NoObj
    /\ w = IdleW
    /\ idIn \in [scList : ValidateSCLists, lvgList : ValidateLvgLists,
                 listErr : BOOLEAN, lsc : ValidateLSCs]
    /\ idOut = NoInput
    /\ NoCSI

Validate ==
    /\ idOut = NoInput
    /\ idOut' = ValidateLocalStorageClass(idIn.scList, idIn.lvgList, idIn.listErr, idIn.lsc)
    /\ UNCHANGED <<rvars, idIn, cvars>>

NextValidate == Validate

SpecValidate == InitValidate /\ [][NextValidate]_vars

----------------------------------------------------------------------------
(* The checks of the validation, stated on the spec and the inventory.     *)

Validated == idOut # NoInput
VBindings == idIn.lsc.spec.lvgs
VListed(n) == n \in LvgNames(idIn.lvgList)
VNodes(n) ==
    LET g == LvgByName(idIn.lvgList, n) IN {g.nodes[k] : k \in 1..Len(g.nodes)}
VPools(n) ==
    LET g == LvgByName(idIn.lvgList, n) IN {g.thinPools[k] : k \in 1..Len(g.thinPools)}

\* no StorageClass of another provisioner has the name
CheckName ==
    ~ \E i \in 1..Len(idIn.scList) :
        idIn.scList[i].name = idIn.lsc.name /\ ~OwnedBy(idIn.scList[i])
\* every bound volume group exists
CheckExist == \A i \in 1..Len(VBindings) : VListed(VBindings[i].name)
\* Thin: every binding names a thin pool of its group's status
CheckThin ==
    \A i \in 1..Len(VBindings) :
        /\ VBindings[i].thin # NoThin
        /\ VListed(VBindings[i].name)
        /\ VBindings[i].thin.poolName \in VPools(VBindings[i].name)
\* Thick: no binding names a thin pool
CheckThick == \A i \in 1..Len(VBindings) : VBindings[i].thin = NoThin
CheckType == IF idIn.lsc.spec.type = Thin THEN CheckThin ELSE CheckThick
\* two distinct binding entries whose volume groups are owned by one node
SharedNode(i, j) ==
    /\ VBindings[i] # VBindings[j]
    /\ VListed(VBindings[i].name) /\ VListed(VBindings[j].name)
    /\ VNodes(VBindings[i].name) \cap VNodes(VBindings[j].name) # {}
\* no two bindings share an owning node
CheckNodes == ~ \E i, j \in 1..Len(VBindings) : SharedNode(i, j)
\* the same for two bindings of different volume groups
CheckNodesOfDifferentGroups ==
    ~ \E i, j \in 1..Len(VBindings) :
        SharedNode(i, j) /\ VBindings[i].name # VBindings[j].name

Msg(ok, tag) == IF ok THEN <<>> ELSE <<tag>>
TypeTag == IF idIn.lsc.spec.type = Thin THEN "thinpools" ELSE "thickthin"

\* C17: with the volume groups listed, validateLocalStorageClass evaluates
\* every check and returns false exactly when at least one of them fails,
\* with one message for each failing check (name collision, shared node,
\* nonexistent group, thin pools of the type).
C17_EveryCheckReported ==
    Validated /\ ~idIn.listErr =>
        /\ idOut.valid = (CheckName /\ CheckNodes /\ CheckExist /\ CheckType)
        /\ idOut.msg = Msg(CheckName, "duplicate") \o Msg(CheckNodes, "samenode")
                         \o Msg(CheckExist, "nonexistent") \o Msg(CheckType, TypeTag)

\* the same with the shared-node check as the code makes it (between
\* different volume groups)
C17_Aggregates ==
    Validated /\ ~idIn.listErr =>
        /\ idOut.valid = (CheckName /\ CheckNodesOfDifferentGroups /\ CheckExist /\ CheckType)
        /\ idOut.msg = Msg(CheckName, "duplicate")
                         \o Msg(CheckNodesOfDifferentGroups, "samenode")
                         \o Msg(CheckExist, "nonexistent") \o Msg(CheckType, TypeTag)

\* a Thin spec with two volume groups of one node and a thin pool that does
\* not exist gets both messages
C17_Witness ==
    /\ Validated /\ ~idIn.listErr
    /\ idIn.lsc.spec.type = Thin
    /\ ~CheckNodesOfDifferentGroups /\ CheckExist /\ ~CheckThin /\ CheckName
    /\ idOut.msg = <<"samenode", "thinpools">>
    /\ ~idOut.valid

\* C18: every LocalStorageClass with two distinct binding entries whose
\* volume groups are owned by the same node is rejected by
\* validateLocalStorageClass.
C18_SameNodeRejected == Validated /\ ~CheckNodes => ~idOut.valid

\* the same for two entries that name different volume groups
C18_DifferentGroupsRejected == Validated /\ ~CheckNodesOfDifferentGroups => ~idOut.valid

C18_Witness ==
    /\ Validated /\ ~idIn.listErr
    /\ ~CheckNodesOfDifferentGroups /\ CheckExist /\ CheckType /\ CheckName
    /\ idOut.msg = <<"samenode">>

----------------------------------------------------------------------------
(* hasLVGDiff on its own: every StorageClass of this provisioner, with     *)
(* every blob, against every LocalStorageClass with up to MaxLvgs bindings.*)

DiffThinValues == {NoThin, ThinPool("tp1"), ThinPool("tp2")}
DiffBindings == {Lvg(n, t) : n \in VgNames, t \in DiffThinValues}
DiffBindingLists == UNION {[1..n -> DiffBindings] : n \in 0..MaxLvgs}

DiffSCs ==
    { [name |-> LscName, provisioner |-> LocalStorageClassProvisioner,
       params |-> [type |-> Thick, lvgs |-> b],
       finalizers |-> <<LocalStorageClassFinalizerName>>, deletion |-> FALSE] :
         b \in {EmptyBlob, MalformedBlob} \cup {YamlMarshal(l) : l \in DiffBindingLists} }

DiffLSCs ==
    { [name |-> LscName, spec |-> [type |-> t, lvgs |-> l], finalizers |-> <<>>,
       deletion |-> FALSE, status |-> NoStatus] :
         t \in {Thin, Thick}, l \in DiffBindingLists }

InitDiff ==
    /\ lscStore = NoObj
    /\ scStore = NoObj
    /\ w = IdleW
    /\ idIn \in [sc : DiffSCs, lsc : DiffLSCs]
    /\ idOut = NoInput
    /\ NoCSI

Diff ==
    /\ idOut = NoInput
    /\ idOut' = [hasDiff |-> HasLVGDiff(idIn.sc, idIn.lsc)]
    /\ UNCHANGED <<rvars, idIn, cvars>>

NextDiff == Diff

SpecDiff == InitDiff /\ [][NextDiff]_vars

\* hasLVGDiff has been evaluated on a StorageClass whose bindings decode
Diffed == idOut # NoInput /\ ~GetLVGFromSCParams(idIn.sc).err
DCurrent == GetLVGFromSCParams(idIn.sc).lvgs
DSpec == idIn.lsc.spec.lvgs

\* the two lists differ at position i: in the name or, for Thin, in the
\* presence or in the name of the thin pool
DiffersAt(i) ==
    \/ DCurrent[i].name # DSpec[i].name
    \/ /\ idIn.lsc.spec.type = Thin
       /\ \/ (DCurrent[i].thin = NoThin) # (DSpec[i].thin = NoThin)
          \/ /\ DCurrent[i].thin # NoThin /\ DSpec[i].thin # NoThin
             /\ DCurrent[i].thin.poolName # DSpec[i].thin.poolName

ListsDiffer ==
    \/ Len(DCurrent) # Len(DSpec)
    \/ \E i \in 1..Len(DCurrent) : DiffersAt(i)

\* C20: hasLVGDiff returns true, without an error and without crashing,
\* whenever the decoded list and the list of the spec differ in length, in
\* the name of a volume group at some position or, for Thin, in the presence
\* (either way) or the name of a thin pool; it returns false only when the
\* lists are positionally equal.
C20_DiffDetected ==
    Diffed => /\ ListsDiffer => idOut.hasDiff = "diff"
              /\ idOut.hasDiff = "same" => ~ListsDiffer

\* what does hold: a result of true or false is the right one
C20_ResultSound ==
    Diffed => /\ idOut.hasDiff = "diff" => ListsDiffer
              /\ idOut.hasDiff = "same" => ~ListsDiffer

\* a thin pool of another name is reported as a difference
C20_Witness ==
    /\ Diffed /\ idIn.lsc.spec.type = Thin
    /\ Len(DCurrent) = Len(DSpec) /\ Len(DSpec) > 0
    /\ DCurrent[1].name = DSpec[1].name
    /\ DCurrent[1].thin # NoThin /\ DSpec[1].thin # NoThin
    /\ DCurrent[1].thin.poolName # DSpec[1].thin.poolName
    /\ idOut.hasDiff = "diff"

----------------------------------------------------------------------------
(* The capacity check of CreateVolume in the Immediate binding mode.       *)

\* the call probed the candidates and the requested size exceeds the free
\* capacity of the one with the most
Oversize == rpc.probed /\ req.bindingMode = BindingModeI /\ req.size > rpc.freeSpace

\* the call returns the capacity error, which names both sizes, and has
\* created no LVMLogicalVolume
CapacityRejected ==
    /\ rpc.pc = "done" /\ ~rpc.resp.ok /\ ~rpc.created
    /\ rpc.resp = CapacityErr(req.size, rpc.freeSpace)

----------------------------------------------------------------------------
(* The CSI controller service of sds-local-volume-csi:                     *)
(* ControllerExpandVolume on a stored LVMLogicalVolume.  rpc.llvRead is    *)
(* the object as the call read it, rpc.free0 the free capacity of its      *)
(* volume group at that moment, rpc.freeSpace the free capacity the call   *)
(* read, rpc.updated whether the call wrote the desired size.              *)

ExpandSizes == 1..(MaxSize + 2)

ExpandRequests == [volumeId : {VolumeName, ""}, size : ExpandSizes, block : BOOLEAN]

\* utils.AreSizesEqualWithinDelta
AreSizesEqualWithinDelta(leftSize, rightSize, delta) == Abs(leftSize - rightSize) <= delta

\* the response of ControllerExpandVolume
ExpandResp(capacityBytes, nodeExpansionRequired) ==
    [ok |-> TRUE, err |-> "", capacityBytes |-> capacityBytes,
     nodeExpansionRequired |-> nodeExpansionRequired]

\* as NoResizeNeeded, without the tolerance of the resize delta
NoResizeNeeded_Exact(actualSize, requestCapacity) == actualSize >= requestCapacity

\* the test after which ControllerExpandVolume returns the actual size
NoResizeNeeded(actualSize, requestCapacity) ==
    \/ actualSize > requestCapacity + ResizeDelta
    \/ AreSizesEqualWithinDelta(requestCapacity, actualSize, ResizeDelta)

\* as LacksFreeSpace, with the resize delta tolerated
LacksFreeSpace_UpToDelta(obj, requestCapacity, free) ==
    obj.spec.type = LVMTypeThick /\ free + ResizeDelta < requestCapacity - obj.actualSize

\* the capacity check of ControllerExpandVolume
LacksFreeSpace(obj, requestCapacity, free) ==
    obj.spec.type = LVMTypeThick /\ free < requestCapacity - obj.actualSize

\* ControllerExpandVolume up to the read of the volume group
ControllerExpandVolume_Get ==
    /\ rpc.pc = "idle"
    /\ Len(resps) < MaxCalls
    /\ \E fault \in BOOLEAN :
         LET wr == Disturbed(rpc, fault) IN
         rpc' = IF req.volumeId = "" THEN Returns(wr, ErrResp("InvalidArgument"))
                ELSE IF fault \/ llv = NoObj THEN Returns(wr, ErrResp("Internal"))
                ELSE LET wl == [wr EXCEPT !.llvRead = llv, !.free0 = lvgFree[llv.spec.lvg]] IN
                     IF NoResizeNeeded(llv.actualSize, req.size)
                     THEN Returns(wl, ExpandResp(llv.actualSize, ~req.block))
                     ELSE [wl EXCEPT !.pc = "x_lvg"]
    /\ UNCHANGED <<rvars, pvars, req, lvgFree, llv, resps>>

\* utils.GetLVMVolumeGroup and the capacity check of a Thick volume
ControllerExpandVolume_GetLVG ==
    /\ rpc.pc = "x_lvg"
    /\ \E fault \in BOOLEAN :
         LET wr == Disturbed(rpc, fault)
             free == lvgFree[rpc.llvRead.spec.lvg]
             wp == [wr EXCEPT !.probed = TRUE, !.freeSpace = free]
         IN rpc' = IF fault \/ rpc.cancelled THEN Returns(wr, ErrResp("Internal"))
                   ELSE IF LacksFreeSpace(rpc.llvRead, req.size, free)
                   THEN Returns(wp, CapacityErr(req.size, free))
                   ELSE [wp EXCEPT !.pc = "x_expand"]
    /\ UNCHANGED <<rvars, pvars, req, lvgFree, llv, resps>>

\* utils.ExpandLVMLogicalVolume: the new desired size is written
ControllerExpandVolume_Expand ==
    /\ rpc.pc = "x_expand"
    /\ \E fault \in BOOLEAN :
         LET wr == Disturbed(rpc, fault) IN
         IF fault \/ rpc.cancelled
         THEN /\ llv' = llv
              /\ rpc' = Returns(wr, ErrResp("Internal"))
         ELSE /\ llv' = [llv EXCEPT !.spec.size = req.size]
              /\ rpc' = [wr EXCEPT !.pc = "x_wait", !.updated = TRUE]
    /\ UNCHANGED <<rvars, pvars, req, lvgFree, resps>>

\* as ControllerExpandVolume_WaitForStatusUpdate, with the desired size set
\* back to what the call read when the poll fails
ControllerExpandVolume_WaitForStatusUpdate_RollsBack ==
    /\ rpc.pc = "x_wait"
    /\ \E fault \in BOOLEAN :
         LET wr == Disturbed(rpc, fault)
             back == [llv EXCEPT !.spec.size = rpc.llvRead.spec.size]
         IN IF fault \/ rpc.cancelled
            THEN llv' = back /\ rpc' = Returns(wr, ErrResp("WaitForStatusUpdate"))
            ELSE IF Converged(llv, req.size)
            THEN llv' = llv /\ rpc' = Returns(wr, ExpandResp(req.size, ~req.block))
            ELSE IF rpc.attempts + 1 >= MaxAttempts
            THEN llv' = back /\ rpc' = Returns(wr, ErrResp("Timeout"))
            ELSE llv' = llv /\ rpc' = [wr EXCEPT !.attempts = @ + 1]
    /\ UNCHANGED <<rvars, pvars, req, lvgFree, resps>>

\* as ControllerExpandVolume_WaitForStatusUpdate, with the response built
\* when the attempt budget is used up
ControllerExpandVolume_WaitForStatusUpdate_TimeoutIgnored ==
    /\ rpc.pc = "x_wait"
    /\ \E fault \in BOOLEAN :
         LET wr == Disturbed(rpc, fault) IN
         rpc' = IF fault \/ rpc.cancelled THEN Returns(wr, ErrResp("WaitForStatusUpdate"))
                ELSE IF Converged(llv, req.size)
                THEN Returns(wr, ExpandResp(req.size, ~req.block))
                ELSE IF rpc.attempts + 1 >= MaxAttempts
                THEN Returns(wr, ExpandResp(req.size, ~req.block))
                ELSE [wr EXCEPT !.attempts = @ + 1]
    /\ UNCHANGED <<rvars, pvars, req, lvgFree, llv, resps>>

\* utils.WaitForStatusUpdate: one attempt of the convergence poll
ControllerExpandVolume_WaitForStatusUpdate ==
    /\ rpc.pc = "x_wait"
    /\ \E fault \in BOOLEAN :
         LET wr == Disturbed(rpc, fault) IN
         rpc' = IF fault \/ rpc.cancelled THEN Returns(wr, ErrResp("WaitForStatusUpdate"))
                ELSE IF Converged(llv, req.size)
                THEN Returns(wr, ExpandResp(req.size, ~req.block))
                ELSE IF rpc.attempts + 1 >= MaxAttempts THEN Returns(wr, ErrResp("Timeout"))
                ELSE [wr EXCEPT !.attempts = @ + 1]
    /\ UNCHANGED <<rvars, pvars, req, lvgFree, llv, resps>>

\* ControllerExpandVolume returns; the next call may be made
ControllerExpandVolume_Return ==
    /\ rpc.pc = "done"
    /\ resps' = Append(resps, rpc.resp @@ [disturbed |-> rpc.disturbed,
                                           updated |-> rpc.updated])
    /\ rpc' = IdleRpc
    /\ UNCHANGED <<rvars, pvars, req, lvgFree, llv>>

\* the caller's deadline expires or the call is cancelled
ExpandCancelled ==
    /\ rpc.pc \in {"x_lvg", "x_expand", "x_wait"}
    /\ ~rpc.cancelled
    /\ rpc' = [rpc EXCEPT !.cancelled = TRUE]
    /\ UNCHANGED <<rvars, pvars, req, lvgFree, llv, resps>>

\* the node agent grows the logical volume to the desired size, a Thick one
\* out of the free capacity of its volume group
AgentResizes ==
    /\ llv # NoObj
    /\ llv.applied
    /\ llv.spec.size > llv.actualSize
    /\ llv.spec.type = LVMTypeThick => lvgFree[llv.spec.lvg] >= llv.spec.size - llv.actualSize
    /\ llv' = [llv EXCEPT !.actualSize = llv.spec.size]
    /\ lvgFree' = IF llv.spec.type = LVMTypeThick
                  THEN [lvgFree EXCEPT ![llv.spec.lvg] = @ - (llv.spec.size - llv.actualSize)]
                  ELSE lvgFree
    /\ UNCHANGED <<rvars, pvars, req, rpc, resps>>

\* the next call asks for another size
ExpandRequestChanged ==
    /\ rpc.pc = "idle"
    /\ Len(resps) \in 1..(MaxCalls - 1)
    /\ \E size \in ExpandSizes \ {req.size} : req' = [req EXCEPT !.size = size]
    /\ UNCHANGED <<rvars, pvars, lvgFree, llv, rpc, resps>>

InitExpand ==
    /\ lscStore = NoObj
    /\ scStore = NoObj
    /\ w = IdleW
    /\ idIn = NoInput
    /\ idOut = NoInput
    /\ req \in ExpandRequests
    /\ lvgFree \in [CandidateNames -> 0..MaxFree]
    /\ llv \in {NoObj} \cup StoredLLVs
    /\ rpc = IdleRpc
    /\ resps = <<>>

NextExpand ==
    \/ ControllerExpandVolume_Get
    \/ ControllerExpandVolume_GetLVG
    \/ ControllerExpandVolume_Expand
    \/ ControllerExpandVolume_WaitForStatusUpdate
    \/ ControllerExpandVolume_Return
    \/ ExpandCancelled
    \/ ExpandRequestChanged
    \/ AgentResizes
    \/ OtherVolumeAllocated

SpecExpand == InitExpand /\ [][NextExpand]_vars

----------------------------------------------------------------------------
(* ControllerExpandVolume: when it writes and when it does not.            *)

\* the call has read the LVMLogicalVolume and is about to return
ExpandDone == rpc.pc = "done" /\ rpc.llvRead # NoObj
InNoOpRange == rpc.llvRead.actualSize >= req.size - ResizeDelta
\* nothing was written and the response carries the actual size
NoOpReturned ==
    /\ ~rpc.updated /\ llv.spec = rpc.llvRead.spec
    /\ rpc.resp.ok /\ rpc.resp.capacityBytes = rpc.llvRead.actualSize
\* the new desired size was written
SizeApplied == rpc.updated /\ llv.spec.size = req.size
\* the call returns an error and the desired size is as it was
ExpandRejected == ~rpc.resp.ok /\ ~rpc.updated /\ llv.spec = rpc.llvRead.spec

ExpandFree == IF rpc.probed THEN rpc.freeSpace ELSE rpc.free0
ThickIncreaseExceeds ==
    /\ rpc.llvRead.spec.type = LVMTypeThick
    /\ req.size - rpc.llvRead.actualSize > ExpandFree

\* C16, as stated: for a Thick LVMLogicalVolume, a ControllerExpandVolume
\* whose increase (requested minus actual size) exceeds the free capacity of
\* the owning volume group returns an error and leaves the desired size
\* unchanged.
C16_Original == ExpandDone /\ ThickIncreaseExceeds => ExpandRejected

\* C16, amended: the same for a requested size beyond the actual size plus
\* the resize delta (within it the call returns the actual size without an
\* error and without reading the volume group); the desired size is written
\* only after the check passed.
C16_ThickIncreaseRejected ==
    /\ ExpandDone /\ ThickIncreaseExceeds /\ ~InNoOpRange => ExpandRejected
    /\ rpc.pc \in {"x_expand", "x_wait"} /\ rpc.llvRead.spec.type = LVMTypeThick
          => req.size - rpc.llvRead.actualSize <= rpc.freeSpace

C16_Witness ==
    /\ ExpandDone /\ ThickIncreaseExceeds /\ ~InNoOpRange /\ ExpandRejected
    /\ rpc.probed /\ ~rpc.disturbed
    /\ rpc.resp = CapacityErr(req.size, rpc.freeSpace)
    /\ rpc.freeSpace > 0

----------------------------------------------------------------------------
(* The CSI controller service of sds-local-volume-csi: DeleteVolume.       *)
(* rpc.deletes lists the names for which the call issued a delete to the   *)
(* store, rpc.llvRead is the stored object when the call was made.         *)

OtherVolumeName == "vol2"

DeleteRequests == [volumeId : {"", VolumeName, OtherVolumeName}]

\* the outcomes of utils.DeleteLVMLogicalVolume: deleted, not found, or
\* another error of the store
StoreDeleteLLV(store, name, fault) ==
    IF fault THEN [obj |-> store, err |-> "Internal"]
    ELSE IF store = NoObj \/ store.spec.name # name THEN [obj |-> store, err |-> "NotFound"]
    ELSE [obj |-> NoObj, err |-> ""]

\* as DeleteVolumeResp, with the error of the delete returned to the caller
DeleteVolumeResp_ErrReturned(deleteErr) ==
    IF deleteErr \in {"", "NotFound"} THEN [ok |-> TRUE, err |-> ""]
    ELSE [ok |-> FALSE, err |-> deleteErr]

\* the result of DeleteVolume after the delete: the error is logged
DeleteVolumeResp(deleteErr) == [ok |-> TRUE, err |-> ""]

\* DeleteVolume: the check of the id and the delete
DeleteVolume_Delete ==
    /\ rpc.pc = "idle"
    /\ Len(resps) < MaxCalls
    /\ \E fault \in BOOLEAN :
         IF req.volumeId = ""
         THEN /\ fault = FALSE
              /\ llv' = llv
              /\ rpc' = Returns([rpc EXCEPT !.llvRead = llv],
                                [ok |-> FALSE, err |-> "InvalidArgument"])
         ELSE LET out == StoreDeleteLLV(llv, req.volumeId, fault) IN
              /\ llv' = out.obj
              /\ rpc' = Returns([Disturbed(rpc, fault) EXCEPT !.deletes = Append(@, req.volumeId),
                                                              !.llvRead = llv],
                                DeleteVolumeResp(out.err))
    /\ UNCHANGED <<rvars, pvars, req, lvgFree, resps>>

\* DeleteVolume returns; the next call may be made
DeleteVolume_Return ==
    /\ rpc.pc = "done"
    /\ resps' = Append(resps, rpc.resp @@ [disturbed |-> rpc.disturbed,
                                           deletes |-> rpc.deletes])
    /\ rpc' = IdleRpc
    /\ UNCHANGED <<rvars, pvars, req, lvgFree, llv>>

InitDelete ==
    /\ lscStore = NoObj
    /\ scStore = NoObj
    /\ w = IdleW
    /\ idIn = NoInput
    /\ idOut = NoInput
    /\ req \in DeleteRequests
    /\ lvgFree \in [CandidateNames -> 0..MaxFree]
    /\ llv \in {NoObj} \cup StoredLLVs
    /\ rpc = IdleRpc
    /\ resps = <<>>

NextDelete ==
    \/ DeleteVolume_Delete
    \/ DeleteVolume_Return

SpecDelete == InitDelete /\ [][NextDelete]_vars

----------------------------------------------------------------------------
(* DeleteVolume: what it issues and what it returns.                       *)

DeleteDone == rpc.pc = "done"

\* C21: DeleteVolume with a non-empty volume id issues one delete of the
\* LVMLogicalVolume of that name and returns success whatever the outcome of
\* that delete (deleted, not found, or another store error); with an empty
\* id it returns InvalidArgument and issues no store operation.
C21_DeleteAlwaysSucceeds ==
    /\ DeleteDone /\ req.volumeId # "" =>
          /\ rpc.deletes = <<req.volumeId>>
          /\ rpc.resp.ok
          /\ llv \in {rpc.llvRead, NoObj}
          /\ llv # rpc.llvRead => rpc.llvRead.spec.name = req.volumeId
    /\ DeleteDone /\ req.volumeId = "" =>
          /\ rpc.deletes = <<>>
          /\ ~rpc.resp.ok /\ rpc.resp.err = "InvalidArgument"
          /\ llv = rpc.llvRead

\* a delete that the store answered with an error, and the call succeeds
C21_Witness ==
    /\ DeleteDone /\ req.volumeId = VolumeName
    /\ rpc.disturbed /\ llv # NoObj /\ rpc.resp.ok

----------------------------------------------------------------------------
(* CreateVolume: the checks of the request.                                *)

\* the request has no name, no capability descriptor, a type that is missing
\* or not lvm, or an empty volume-group parameter
InvalidRequest ==
    \/ req.name = ""
    \/ ~req.capabilities
    \/ req.type = "" \/ req.type # Lvm
    \/ req.lvgParam = ""

\* C22: CreateVolume returns InvalidArgument and leaves the store unchanged
\* (no LVMLogicalVolume created or deleted) when the request name is empty,
\* the capability descriptor is missing, the storage-class type is missing or
\* not lvm, or the volume-group parameter is empty.
C22_InvalidRejected ==
    [][rpc.pc = "idle" /\ rpc'.pc # "idle" /\ InvalidRequest =>
          /\ rpc'.pc = "done"
          /\ rpc'.resp = ErrResp("InvalidArgument")
          /\ ~rpc'.created
          /\ llv' = llv]_vars

\* a request with an empty volume-group parameter only, rejected while a
\* volume of its name is stored
C22_Witness ==
    /\ rpc.pc = "done" /\ rpc.resp = ErrResp("InvalidArgument")
    /\ req.name # "" /\ req.capabilities /\ req.type = Lvm /\ req.lvgParam = ""
    /\ llv # NoObj

----------------------------------------------------------------------------
(* CreateVolume: the response of a successful call.                        *)

CreateSucceeded == rpc.pc = "done" /\ rpc.resp # NoObj /\ rpc.resp.ok

\* the candidate of the storage class with the given name on its node
CandidateNamed(actualName) ==
    {StorageClassLVGs[i] : i \in {j \in 1..Len(StorageClassLVGs) :
        StorageClassLVGs[j].actualVGNameOnTheNode = actualName}}

\* C23: every successful CreateVolume response has volume id equal to the
\* request name, capacity equal to the requested bytes, a context that
\* contains every original parameter plus sub-path = name, the name of the
\* selected volume group and the thin-pool name (the selected pool for Thin,
\* the empty string for Thick), and exactly one topology segment naming the
\* node that owns the selected volume group.
C23_ResponseContents ==
    CreateSucceeded =>
        LET v == rpc.resp.volume IN
        /\ v.volumeId = req.name
        /\ v.capacityBytes = req.size
        /\ {TypeKey, LvmTypeKey, BindingModeKey, LvmVolumeGroupKey, SubPath, VGNameKey,
            ThinPoolNameKey} \subseteq DOMAIN v.context
        /\ v.context[TypeKey] = req.type
        /\ v.context[LvmTypeKey] = req.lvmType
        /\ v.context[BindingModeKey] = req.bindingMode
        /\ v.context[LvmVolumeGroupKey] = req.lvgParam
        /\ v.context[SubPath] = req.name
        /\ CandidateNamed(v.context[VGNameKey]) = {rpc.selectedLVG}
        /\ v.context[ThinPoolNameKey] =
              IF req.lvmType = LVMTypeThin THEN rpc.selectedLVG.poolName ELSE ""
        /\ Len(v.topology) = 1
        /\ DOMAIN v.topology[1] = {TopologyKey}
        /\ v.topology[1][TopologyKey] = rpc.selectedLVG.node

\* a Thin volume placed on the preferred node of the request
C23_Witness ==
    /\ CreateSucceeded
    /\ req.lvmType = LVMTypeThin /\ req.bindingMode = BindingModeWFFC
    /\ rpc.resp.volume.context[ThinPoolNameKey] = "poolY"
    /\ rpc.resp.volume.context[VGNameKey] = "vg-b"
    /\ rpc.resp.volume.topology[1][TopologyKey] = "node2"

----------------------------------------------------------------------------
(* CreateVolume: which LVMLogicalVolume a failed call deletes.             *)

\* the step in which the call deletes the stored LVMLogicalVolume
DeletesStored == rpc.pc = "delete" /\ llv # NoObj /\ llv' = NoObj

\* C24: a CreateVolume invocation that fails deletes only an
\* LVMLogicalVolume that this same invocation created; one that already
\* existed when the invocation submitted its create (AlreadyExists) is never
\* deleted by it.
C24_DeletesOnlyOwn == [][DeletesStored => rpc.created]_vars

\* a failed invocation that created the LVMLogicalVolume and deleted it
C24_Witness == PollFailed /\ rpc.created /\ llv = NoObj /\ ~rpc.disturbed

----------------------------------------------------------------------------
(* The create path on a StorageClass that exists already.                  *)

ListedBindings == GetLVGFromSCParams(ListedSC)

\* the invocation took the create path and listed a StorageClass of this
\* provisioner whose stored bindings are not the spec's
CreateOnDifferingSC ==
    /\ w.pc = "done" /\ w.ran /\ w.recType = CreateReconcile /\ LscValid
    /\ ListedSC # NoObj /\ OwnedBy(ListedSC) /\ ~ListedSC.deletion
    /\ ~ListedBindings.err /\ ListedBindings.lvgs # w.lsc.spec.lvgs

\* C25: in the create path, when a StorageClass with the spec's name owned
\* by this provisioner already exists and its stored bindings differ from the
\* spec's bindings, the reconciler detects the difference and recreates the
\* StorageClass, so that after a successful invocation the stored
\* StorageClass carries the spec's bindings.
C25_CreateRecreates ==
    CreateOnDifferingSC /\ ~w.faulted /\ ~w.interf =>
        /\ ~w.err
        /\ OwnStored
        /\ ~StoredBindings.err /\ StoredBindings.lvgs = w.lsc.spec.lvgs

\* such an invocation has ended: the StorageClass still has the bindings it
\* had and the invocation returns an error
C25_Witness ==
    /\ CreateOnDifferingSC /\ ~w.faulted /\ ~w.interf
    /\ w.err /\ w.requeue /\ scStore = ListedSC

----------------------------------------------------------------------------
(* Phase Created and the StorageClass.                                     *)

\* the stored LocalStorageClass has no deletion marker and phase Created
RecordedCreated ==
    /\ lscStore # NoObj /\ ~lscStore.deletion
    /\ lscStore.status # NoStatus /\ lscStore.status.phase = CreatedStatusPhase

\* C26: in every reachable state in which a LocalStorageClass without a
\* deletion marker has recorded phase Created, a StorageClass of the same
\* name owned by this provisioner exists in the store and carries the
\* controller finalizer.
C26_CreatedHasSC == RecordedCreated => OwnStored /\ HasFinalizer(scStore.finalizers)


\* phase Created recorded with the StorageClass stored and carrying the
\* finalizer, at the end of an update reconcile
C26_Witness ==
    /\ RecordedCreated /\ OwnStored /\ HasFinalizer(scStore.finalizers)
    /\ w.pc = "done" /\ w.recType = UpdateReconcile /\ w.phaseWritten = CreatedStatusPhase

----------------------------------------------------------------------------
(* The create path: the finalizer of the LocalStorageClass comes first.    *)

\* a step of the create path that writes a StorageClass
CreatePathWritesSC == WorkerStep /\ w.recType = CreateReconcile /\ scStore' # scStore

\* C27: in the create path the controller finalizer is persisted on the
\* LocalStorageClass before any StorageClass is created; if adding that
\* finalizer fails, no StorageClass is created, deleted or updated in that
\* invocation and shouldRequeue is true.
C27_FinalizerBeforeSC ==
    /\ [][CreatePathWritesSC =>
            /\ w.finAdded = "ok"
            /\ lscStore # NoObj /\ HasFinalizer(lscStore.finalizers)]_vars
    /\ [](w.finAdded = "err" => w.pc = "done" /\ w.requeue /\ w.err /\ ~w.wrote)

\* the update that adds the finalizer was rejected because the user had
\* changed the LocalStorageClass; the invocation ends there
C27_Witness ==
    /\ w.pc = "done" /\ w.recType = CreateReconcile /\ w.finAdded = "err"
    /\ w.requeue /\ ~w.faulted /\ scStore = NoObj

----------------------------------------------------------------------------
(* ControllerExpandVolume: the desired size over a sequence of calls.      *)

\* a step that writes the desired size of the stored LVMLogicalVolume
DesiredSizeWritten == llv # NoObj /\ llv' # NoObj /\ llv'.spec.size # llv.spec.size

\* C28: ControllerExpandVolume never decreases the desired size of an
\* LVMLogicalVolume: after any sequence of calls (including calls made while
\* an earlier expansion has not yet converged or has timed out), the desired
\* size is greater than or equal to its value before each call.
C28_DesiredSizeNeverDecreases ==
    [][DesiredSizeWritten => llv'.spec.size >= llv.spec.size]_vars

\* a call that raised the desired size
C28_Witness ==
    /\ rpc.pc = "done" /\ rpc.updated /\ rpc.resp.ok
    /\ llv.spec.size = req.size /\ llv.spec.size > rpc.llvRead.spec.size

----------------------------------------------------------------------------
(* CreateVolume: the response and the stored LVMLogicalVolume.             *)

\* the candidates that the response describes: the name on the node of its
\* context and the node of its topology
ReportedLVGs ==
    {g \in CandidateNamed(rpc.resp.volume.context[VGNameKey]) :
        g.node = rpc.resp.volume.topology[1][TopologyKey]}

\* C29: whenever CreateVolume returns success, the LVMLogicalVolume named by
\* the returned volume id has as its owning volume group the group reported
\* in the response context, and that group is owned by the node named in the
\* response topology; this holds also when the create was answered with
\* AlreadyExists.
C29_ResponseMatchesStored ==
    CreateSucceeded =>
        /\ llv # NoObj /\ llv.spec.name = rpc.resp.volume.volumeId
        /\ \E g \in ReportedLVGs : g.name = llv.spec.lvg

\* a successful call whose create was answered with AlreadyExists and whose
\* response describes the stored LVMLogicalVolume
C29_Witness ==
    /\ CreateSucceeded /\ ~rpc.created
    /\ llv # NoObj /\ \E g \in ReportedLVGs : g.name = llv.spec.lvg

----------------------------------------------------------------------------
(* The reconciler under fairness.  The worker takes the next request       *)
(* whenever it is idle; the users write valid specs and leave the          *)
(* StorageClasses alone.  Every step of the worker is eventually taken,    *)
(* and each of its calls, when made again and again, eventually succeeds.  *)

\* the valid specs the users write
LiveSpecs ==
    { [type |-> Thick, lvgs |-> <<Lvg("vg1", NoThin)>>],
      [type |-> Thick, lvgs |-> <<Lvg("vg1", NoThin), Lvg("vg2", NoThin)>>] }

LiveUserCreateLSC ==
    /\ lscStore = NoObj
    /\ \E spec \in LiveSpecs :
         lscStore' = [name |-> LscName, spec |-> spec, finalizers |-> <<>>,
                      deletion |-> FALSE, status |-> NoStatus]
    /\ w' = Touched(w, TRUE, FALSE)
    /\ UNCHANGED <<scStore, pvars, cvars>>

LiveUserUpdateLSC ==
    /\ lscStore # NoObj
    /\ ~lscStore.deletion
    /\ \E spec \in LiveSpecs \ {lscStore.spec} : lscStore' = [lscStore EXCEPT !.spec = spec]
    /\ w' = Touched(w, TRUE, FALSE)
    /\ UNCHANGED <<scStore, pvars, cvars>>

NextLive ==
    \/ WorkerNext
    \/ LiveUserCreateLSC
    \/ LiveUserUpdateLSC
    \/ UserDeleteLSC

\* the step was made without a failure of a store or library call
Succeeds == ~w'.faulted

Fairness ==
    /\ WF_vars(WorkerNext)
    /\ SF_vars(Reconcile_Get /\ Succeeds)
    /\ SF_vars(Reconcile_List /\ Succeeds)
    /\ SF_vars(Create_AddFinalizerLSC /\ Succeeds)
    /\ SF_vars(Create_Validate /\ Succeeds)
    /\ SF_vars(Create_CreateSC /\ Succeeds)
    /\ SF_vars(Create_AddFinalizerSC /\ Succeeds)
    /\ SF_vars(Update_Validate /\ Succeeds)
    /\ SF_vars(DeleteStorageClass_RemoveFinalizer /\ Succeeds)
    /\ SF_vars(DeleteStorageClass_Delete /\ Succeeds)
    /\ SF_vars(RecreateStorageClass_Create /\ Succeeds)
    /\ SF_vars(Delete_RemoveFinalizerLSC /\ Succeeds)
    /\ SF_vars(Reconcile_PhaseCreated /\ Succeeds)
    /\ SF_vars(Reconcile_PhaseFailed /\ Succeeds)

SpecLive == Init /\ [][NextLive]_vars /\ Fairness

\* the spec stays as the user last wrote it, with no deletion marker
Settled(spec) == lscStore # NoObj /\ ~lscStore.deletion /\ lscStore.spec = spec

\* phase Created and a StorageClass of this provisioner with the spec's
\* bindings
Reconciled ==
    /\ RecordedCreated
    /\ OwnStored
    /\ ~StoredBindings.err /\ StoredBindings.lvgs = lscStore.spec.lvgs

\* C30: under fairness, every valid LocalStorageClass without a deletion
\* marker eventually reaches and stays in a state with phase Created and an
\* own-provisioner StorageClass whose bindings equal the spec's bindings,
\* from any reachable state, including after the spec's bindings have been
\* changed or an earlier pass has failed.
C30_EventuallyReconciled ==
    \A spec \in LiveSpecs : <>[]Settled(spec) => <>[]Reconciled

\* a changed spec is settled (the reconciler has seen it and failed) while
\* the StorageClass still has the bindings of the spec before
C30_Witness ==
    /\ \E spec \in LiveSpecs : Settled(spec)
    /\ OwnStored /\ ~StoredBindings.err /\ StoredBindings.lvgs # lscStore.spec.lvgs
    /\ lscStore.status # NoStatus /\ lscStore.status.phase = FailedStatusPhase
    /\ w.pc = "done" /\ ~w.faulted /\ ~w.interf /\ w.recType = UpdateReconcile

----------------------------------------------------------------------------
(* Deletion under fairness.                                                *)

\* the stored LocalStorageClass carries a deletion marker (it is kept by the
\* controller finalizer)
MarkedForDeletion == lscStore # NoObj /\ lscStore.deletion

\* the fairness the deletion needs: the steps of the worker are taken, and
\* the reads and the three writes of the delete path, made again and again,
\* eventually succeed (Fairness implies it)
DeleteFairness ==
    /\ WF_vars(WorkerNext)
    /\ SF_vars(Reconcile_Get /\ Succeeds)
    /\ SF_vars(Reconcile_List /\ Succeeds)
    /\ SF_vars(DeleteStorageClass_RemoveFinalizer /\ Succeeds)
    /\ SF_vars(DeleteStorageClass_Delete /\ Succeeds)
    /\ SF_vars(Delete_RemoveFinalizerLSC /\ Succeeds)

SpecLiveDelete == Init /\ [][NextLive]_vars /\ DeleteFairness

\* C31: under the same fairness, every LocalStorageClass that has a deletion
\* marker eventually loses the controller finalizer (and is then gone), and
\* its own-provisioner StorageClass is eventually deleted.
C31_EventuallyDeleted ==
    /\ MarkedForDeletion ~> lscStore = NoObj
    /\ MarkedForDeletion ~> ~OwnStored

\* a delete reconcile has deleted the StorageClass and removed the finalizer:
\* both objects are gone
C31_Witness ==
    /\ w.pc = "done" /\ w.recType = DeleteReconcile /\ w.scDelete = "ok"
    /\ w.lsc.deletion /\ ~HasFinalizer(w.lsc.finalizers)
    /\ lscStore = NoObj /\ scStore = NoObj

----------------------------------------------------------------------------
(* Writes the store rejects.                                               *)

\* a write of this invocation returned an error
WriteRejected == w.lscRejected \/ w.scRejected

\* the step of a pass that reads the LocalStorageClass, and the one that
\* lists the StorageClasses
ReadsLSC == w.pc = "idle" /\ w'.pc = "list"
ListsSCs == w.pc = "list" /\ w'.ran

\* C32: a write of the reconciler (finalizer add or remove, phase update,
\* StorageClass create, update or delete) that the store rejects, for
\* instance with a Conflict caused by a concurrent writer, is not fatal: the
\* invocation returns shouldRequeue=true, and every pass works on the
\* LocalStorageClass and the StorageClass list as it reads them from the
\* store at its start.
C32_RejectedWriteRequeues ==
    /\ [](w.pc = "done" /\ WriteRejected => w.requeue)
    /\ [][ReadsLSC => w'.lsc = lscStore /\ ~w'.lscStale]_vars
    /\ [][ListsSCs => w'.scList = ListSC(scStore) /\ ~w'.scStale]_vars

\* an update of the LocalStorageClass was rejected with a Conflict (the user
\* had written the object, no call failed otherwise): the pass asks for a
\* requeue
C32_Witness ==
    /\ w.pc = "done" /\ w.lscRejected /\ w.lscStale /\ ~w.faulted
    /\ lscStore # NoObj /\ w.requeue /\ w.err

----------------------------------------------------------------------------
(* CreateVolume: the caller's deadline expires during the poll.            *)

\* the call was cancelled (or its deadline expired) and is about to return
\* the error of the convergence poll
CancelledPollFailed == PollFailed /\ rpc.cancelled

\* C33: when the caller's deadline expires or the RPC context is cancelled
\* while CreateVolume is polling for convergence, polling stops, an error is
\* returned, and the compensating delete of the LVMLogicalVolume is still
\* carried out, so the request does not survive the failed call.
C33_CancelledStillDeletes == CancelledPollFailed => llv = NoObj

\* the call created the LVMLogicalVolume and polled once; then the context
\* was cancelled, the poll returned its error, and the call is about to
\* return with the LVMLogicalVolume still stored
C33_Witness ==
    /\ CancelledPollFailed /\ rpc.resp.err = "WaitForStatusUpdate"
    /\ rpc.created /\ rpc.attempts = 1
    /\ llv # NoObj /\ llv.spec = rpc.llvSpec

----------------------------------------------------------------------------
(* The two calls that wait for the node agent: CreateVolume and            *)
(* ControllerExpandVolume, each in its own behaviours.                     *)

\* which of the two requests the driver is called with
IsCreateRequest == "name" \in DOMAIN req
IsExpandRequest == "volumeId" \in DOMAIN req

InitVolumes == InitCSI \/ InitExpand

NextVolumes ==
    \/ IsCreateRequest /\ NextCSI
    \/ IsExpandRequest /\ NextExpand

SpecVolumes == InitVolumes /\ [][NextVolumes]_vars

\* the step in which a call that submitted a create, or wrote a new desired
\* size, comes to return success
MutatingCallSucceeds ==
    /\ rpc.pc # "done" /\ rpc'.pc = "done" /\ rpc'.resp.ok
    /\ IsCreateRequest \/ rpc.updated

\* C34: CreateVolume and the mutating branch of ControllerExpandVolume
\* return success only after a poll has observed the LVMLogicalVolume's
\* actual size within ResizeDelta of the requested size (bit-exact equality
\* is not required); if the poll times out or the read fails they return
\* that error and never a success response.
C34_SuccessOnlyAfterConvergence ==
    [][MutatingCallSucceeds =>
          /\ rpc.pc \in {"wait", "x_wait"}
          /\ llv # NoObj /\ Converged(llv, req.size)
          /\ ~rpc.cancelled]_vars

\* ControllerExpandVolume wrote the desired size and returns success on an
\* actual size that is within the delta of the requested size and not equal
\* to it
C34_Witness ==
    /\ IsExpandRequest /\ rpc.pc = "done" /\ rpc.updated /\ rpc.resp.ok
    /\ llv.actualSize # req.size /\ Converged(llv, req.size)

----------------------------------------------------------------------------
(* CreateVolume in WaitForFirstConsumer binding mode.                      *)

\* the request passes the checks and asks for WaitForFirstConsumer
WFFCRequest ==
    IsCreateRequest /\ ~RequestRejected(req) /\ req.bindingMode = BindingModeWFFC

\* no candidate volume group is owned by the node of the first preferred
\* segment, or the request gives no preferred topology
NoCandidateOnPreferred == SelectLVG(StorageClassLVGs, req.preferred) = NoObj

\* the call returned an error to its caller
ErrorReturned == ~rpc.resp.ok /\ rpc.resp.err # ""

\* C35: in WaitForFirstConsumer binding mode CreateVolume places the
\* LVMLogicalVolume only in a candidate volume group owned by the node named
\* in the first preferred topology segment; if no candidate group is on that
\* node (or no preferred topology is given) it returns an error and creates
\* no LVMLogicalVolume.
C35_WFFCPlacement ==
    /\ WFFCRequest /\ rpc.llvSpec # NoObj =>
          \E i \in 1..Len(StorageClassLVGs) :
              /\ StorageClassLVGs[i].name = rpc.llvSpec.lvg
              /\ StorageClassLVGs[i].node = req.preferred
    /\ WFFCRequest /\ NoCandidateOnPreferred /\ rpc.pc = "done" =>
          ErrorReturned /\ rpc.llvSpec = NoObj /\ ~rpc.created

\* a WaitForFirstConsumer request whose preferred node owns no candidate is
\* answered with an error before anything is submitted
C35_Witness ==
    /\ WFFCRequest /\ req.preferred = "node3" /\ rpc.pc = "done"
    /\ ErrorReturned /\ rpc.resp.err = "Internal" /\ ~rpc.disturbed
    /\ rpc.llvSpec = NoObj /\ ~rpc.created

----------------------------------------------------------------------------
(* The CSI controller service of sds-lvm-csi (the older driver):           *)
(* CreateVolume.  rpc.pc is "l_create" before the LVMLogicalVolume is      *)
(* submitted and "l_wait" while the call polls; rpc.selectedLVG is what    *)
(* utils.GetLVMVolumeGroupParams resolved, NoObj when it returned an error.*)

\* the requests of the older driver: it reads the name, the capabilities,
\* the binding mode, the volume type and the accessibility requirements
LvmCsiRequests ==
    { r \in [ name : {VolumeName, ""}, capabilities : BOOLEAN,
              lvmType : {LVMTypeThick, LVMTypeThin},
              bindingMode : {BindingModeI, BindingModeWFFC},
              size : 1..MaxSize,
              preferred : {"", "node1", "node3"},
              accessibility : BOOLEAN ] :
        r.accessibility \/ r.preferred = "" }

\* v1alpha1.LvmLogicalVolumeSpec as the older driver builds it: the names
\* are empty when no volume group was resolved
LvmCsiLLVSpec(r, selectedLVG) ==
    [ name |-> r.name,
      lvg |-> IF selectedLVG = NoObj THEN "" ELSE selectedLVG.name,
      type |-> r.lvmType,
      poolName |-> IF r.lvmType = LVMTypeThin /\ selectedLVG # NoObj
                   THEN selectedLVG.poolName ELSE "",
      size |-> r.size ]

\* the response of the older driver
LvmCsiOkResp(r, wr) ==
    [ ok |-> TRUE, err |-> "",
      volume |-> [ volumeId |-> r.name, capacityBytes |-> r.size,
                   context |-> (SubPath :> r.name) @@
                               (VGNameKey :> IF wr.selectedLVG = NoObj THEN ""
                                             ELSE wr.selectedLVG.actualVGNameOnTheNode) @@
                               (LvmTypeKey :> r.lvmType) @@
                               (BindingModeKey :> r.bindingMode),
                   topology |-> << (TopologyKey :> wr.preferredNode) >> ] ]

\* CreateVolume of the older driver up to the submission: the checks of the
\* request, the node (utils.GetNodeMaxFreeVGSize, its error only logged) and
\* the volume group (utils.GetLVMVolumeGroupParams, its error only logged)
LvmCsi_CreateVolume_Select ==
    /\ rpc.pc = "idle"
    /\ Len(resps) < MaxCalls
    /\ \E nodeErr, paramsErr \in BOOLEAN :
         LET max == IF nodeErr THEN [node |-> "", freeSpace |-> 0]
                    ELSE GetNodeWithMaxFreeSpace(StorageClassLVGs, lvgFree)
             wr == Disturbed(rpc, nodeErr \/ paramsErr)
             preferredNode == IF req.bindingMode = BindingModeI THEN max.node
                              ELSE req.preferred
             selectedLVG == IF paramsErr THEN NoObj
                            ELSE SelectLVG(StorageClassLVGs, preferredNode)
         IN rpc' =
              IF req.name = "" \/ ~req.capabilities
              THEN Returns(rpc, ErrResp("InvalidArgument"))
              ELSE IF req.bindingMode = BindingModeI /\ req.size > max.freeSpace
                   THEN Returns(wr, CapacityErr(req.size, max.freeSpace))
              ELSE IF req.bindingMode = BindingModeWFFC /\ ~req.accessibility
                   THEN Returns(wr, PanicResp)
              ELSE [wr EXCEPT !.pc = "l_create", !.preferredNode = preferredNode,
                              !.selectedLVG = selectedLVG,
                              !.llvSpec = LvmCsiLLVSpec(req, selectedLVG)]
    /\ UNCHANGED <<rvars, pvars, req, lvgFree, llv, resps>>

\* utils.CreateLVMLogicalVolume; AlreadyExists is skipped over
LvmCsi_CreateVolume_CreateLLV ==
    /\ rpc.pc = "l_create"
    /\ \E fault \in BOOLEAN :
         LET wr == Disturbed(rpc, fault) IN
         IF fault
         THEN /\ llv' = llv
              /\ rpc' = Returns(wr, ErrResp("CreateLVMLogicalVolume"))
         ELSE IF llv # NoObj
         THEN /\ llv' = llv
              /\ rpc' = [wr EXCEPT !.pc = "l_wait"]
         ELSE /\ llv' = NewLLV(rpc.llvSpec)
              /\ rpc' = [wr EXCEPT !.pc = "l_wait", !.created = TRUE]
    /\ UNCHANGED <<rvars, pvars, req, lvgFree, resps>>

\* utils.WaitForStatusUpdate: one attempt of the convergence poll; its error
\* is returned and the LVMLogicalVolume is left in the store
LvmCsi_CreateVolume_WaitForStatusUpdate ==
    /\ rpc.pc = "l_wait"
    /\ \E fault \in BOOLEAN :
         LET wr == Disturbed(rpc, fault) IN
         rpc' = IF fault THEN Returns(wr, ErrResp("WaitForStatusUpdate"))
                ELSE IF llv = NoObj THEN Returns(wr, ErrResp("NotFound"))
                ELSE IF Converged(llv, req.size) THEN Returns(wr, LvmCsiOkResp(req, wr))
                ELSE IF rpc.attempts + 1 >= MaxAttempts THEN Returns(wr, ErrResp("Timeout"))
                ELSE [wr EXCEPT !.attempts = @ + 1]
    /\ UNCHANGED <<rvars, pvars, req, lvgFree, llv, resps>>

\* the node agent applies an LVMLogicalVolume whose volume group exists
AgentAppliesPlaced ==
    /\ llv # NoObj
    /\ llv.spec.lvg \in CandidateNames
    /\ AgentApplies

InitLvmCsi ==
    /\ lscStore = NoObj
    /\ scStore = NoObj
    /\ w = IdleW
    /\ idIn = NoInput
    /\ idOut = NoInput
    /\ req \in LvmCsiRequests
    /\ lvgFree \in [CandidateNames -> 0..MaxFree]
    /\ llv = NoObj
    /\ rpc = IdleRpc
    /\ resps = <<>>

NextLvmCsi ==
    \/ LvmCsi_CreateVolume_Select
    \/ LvmCsi_CreateVolume_CreateLLV
    \/ LvmCsi_CreateVolume_WaitForStatusUpdate
    \/ CreateVolume_Return
    \/ AgentAppliesPlaced
    \/ OtherVolumeAllocated

SpecLvmCsi == InitLvmCsi /\ [][NextLvmCsi]_vars

\* utils.GetLVMVolumeGroupParams returned an error in this call
PlacementFailed == rpc.pc \in {"l_create", "l_wait"} /\ rpc.selectedLVG = NoObj

\* C36: CreateVolume never submits an LVMLogicalVolume when placement
\* failed: in the sds-lvm-csi driver, when GetLVMVolumeGroupParams returns
\* an error (no volume group could be selected), the call returns that error
\* and creates no LVMLogicalVolume with an empty or unresolved volume-group
\* name.
C36_NoUnplacedLLV ==
    /\ ~PlacementFailed
    /\ llv # NoObj => llv.spec.lvg \in CandidateNames

\* no volume group was resolved, and the call has submitted an
\* LVMLogicalVolume with an empty volume-group name and polls for it
C36_Witness ==
    /\ rpc.pc = "l_wait" /\ rpc.selectedLVG = NoObj /\ rpc.created
    /\ llv # NoObj /\ llv.spec.lvg = "" /\ llv.spec.name = req.name

----------------------------------------------------------------------------
(* ControllerExpandVolume: a poll that fails after the write.              *)

\* the call wrote the new desired size and is about to return an error
ExpandPollFailed == rpc.pc = "done" /\ rpc.updated /\ ~rpc.resp.ok

\* the step in which the poll of such a call ends with an error
ExpandPollFails == rpc.pc = "x_wait" /\ rpc'.pc = "done" /\ ~rpc'.resp.ok

\* C37: if the convergence poll of ControllerExpandVolume fails (timeout or
\* read error) after the new desired size was applied, the call returns the
\* error, the LVMLogicalVolume is not deleted, and its desired size stays at
\* the newly requested value (there is no rollback to the previous desired
\* size).
C37_NoRollbackAfterFailedPoll ==
    /\ [](ExpandPollFailed =>
            /\ rpc.resp.err \in {"Timeout", "WaitForStatusUpdate"}
            /\ llv # NoObj /\ llv.spec.size = req.size)
    /\ [][ExpandPollFails => llv' = llv]_vars

\* the poll timed out: the desired size is the requested one, above the one
\* the call read, and the actual size has not followed
C37_Witness ==
    /\ ExpandPollFailed /\ rpc.resp.err = "Timeout" /\ ~rpc.disturbed
    /\ llv.spec.size = req.size /\ llv.spec.size > rpc.llvRead.spec.size
    /\ llv.actualSize = rpc.llvRead.actualSize

----------------------------------------------------------------------------
(* A failed validation in the create and the update path.                  *)

\* the step in which validateLocalStorageClass returns false
ValidationFails ==
    w.pc \in {"c_validate", "u_validate"} /\ w'.pc # w.pc /\ ~w'.validated

\* the messages validateLocalStorageClass can return for the object at hand
ValidationMsgs ==
    {ValidateLocalStorageClass(w.scList, LvgList, listErr, w.lsc).msg : listErr \in BOOLEAN}

\* the invocation is on the error path of a failed validation
ValidationFailed ==
    /\ w.recType \in {CreateReconcile, UpdateReconcile}
    /\ w.pc \in {"failphase", "done"}
    /\ ~w.validated /\ w.reason # <<>>

\* the invocation has handled no StorageClass
NoSCHandled == w.sc = NoObj /\ w.scRV = "none" /\ w.scDelete = "none" /\ ~w.scRejected

\* the step that follows a failed validation:
\* updateLocalStorageClassPhase(Failed, msg) and the return
RecordsValidationFailure ==
    ValidationFailed /\ w.pc = "failphase" /\ w'.pc # w.pc

\* the stored LocalStorageClass carries phase Failed and the reason of the
\* invocation
ReasonRecorded(wr, store) ==
    /\ store # NoObj
    /\ store.status = [phase |-> FailedStatusPhase, reason |-> wr.reason]

\* the part of the claim every run satisfies: a failed validation leads to
\* the status update and to nothing else, no StorageClass is touched, and
\* the invocation returns shouldRequeue true with an error
ValidationFailureFrame ==
    /\ [](w.pc \in {"c_validate", "u_validate"} => NoSCHandled)
    /\ [][ValidationFails =>
            /\ w'.pc = "failphase" /\ w'.reason \in ValidationMsgs
            /\ w'.reason # <<>> /\ scStore' = scStore /\ lscStore' = lscStore]_vars
    /\ [](ValidationFailed => NoSCHandled)
    /\ [][RecordsValidationFailure =>
            /\ scStore' = scStore
            /\ w'.pc = "done" /\ w'.requeue /\ w'.err /\ w'.reason = w.reason]_vars

----------------------------------------------------------------------------
(* Finalizers of other owners.  Another controller puts a finalizer of its *)
(* own on the LocalStorageClass or on the StorageClass and takes it off    *)
(* again; the reconciler runs next to it as before.                        *)

\* a finalizer that is not the controller's
OtherFinalizerName == "storage.example.io/protection"

RECURSIVE Occurrences(_, _)
Occurrences(fins, name) ==
    IF fins = <<>> THEN 0
    ELSE (IF Head(fins) = name THEN 1 ELSE 0) + Occurrences(Tail(fins), name)

\* the list without the finalizer of the other owner
WithoutOther(fins) == SelectSeq(fins, LAMBDA f : f # OtherFinalizerName)

OtherAddsFinalizerLSC ==
    /\ lscStore # NoObj
    /\ Occurrences(lscStore.finalizers, OtherFinalizerName) = 0
    /\ \E front \in BOOLEAN :
         lscStore' = [lscStore EXCEPT !.finalizers =
                        IF front THEN <<OtherFinalizerName>> \o @
                        ELSE Append(@, OtherFinalizerName)]
    /\ w' = Touched(w, TRUE, FALSE)
    /\ UNCHANGED <<scStore, pvars, cvars>>

OtherRemovesFinalizerLSC ==
    /\ lscStore # NoObj
    /\ Occurrences(lscStore.finalizers, OtherFinalizerName) > 0
    /\ lscStore' = Settle([lscStore EXCEPT !.finalizers = WithoutOther(@)])
    /\ w' = Touched(w, TRUE, FALSE)
    /\ UNCHANGED <<scStore, pvars, cvars>>

OtherAddsFinalizerSC ==
    /\ scStore # NoObj
    /\ Occurrences(scStore.finalizers, OtherFinalizerName) = 0
    /\ \E front \in BOOLEAN :
         scStore' = [scStore EXCEPT !.finalizers =
                       IF front THEN <<OtherFinalizerName>> \o @
                       ELSE Append(@, OtherFinalizerName)]
    /\ w' = Touched(w, FALSE, TRUE)
    /\ UNCHANGED <<lscStore, pvars, cvars>>

OtherRemovesFinalizerSC ==
    /\ scStore # NoObj
    /\ Occurrences(scStore.finalizers, OtherFinalizerName) > 0
    /\ scStore' = Settle([scStore EXCEPT !.finalizers = WithoutOther(@)])
    /\ w' = Touched(w, FALSE, TRUE)
    /\ UNCHANGED <<lscStore, pvars, cvars>>

\* the specs the user gives the LocalStorageClass in these runs: two valid
\* ones that differ in their volume groups
FinalizerSpecs ==
    { [type |-> Thick, lvgs |-> <<Lvg("vg1", NoThin)>>],
      [type |-> Thick, lvgs |-> <<Lvg("vg1", NoThin), Lvg("vg2", NoThin)>>] }

UserGivesFinalizerSpecs == lscStore' # NoObj => lscStore'.spec \in FinalizerSpecs

NextFinalizers ==
    \/ Next /\ UserGivesFinalizerSpecs
    \/ OtherAddsFinalizerLSC
    \/ OtherRemovesFinalizerLSC
    \/ OtherAddsFinalizerSC
    \/ OtherRemovesFinalizerSC

SpecFinalizers == Init /\ [][NextFinalizers]_vars

\* the controller finalizer is at most once in the list of the object
AtMostOnce(obj) ==
    obj # NoObj => Occurrences(obj.finalizers, LocalStorageClassFinalizerName) <= 1

\* the finalizer of the other owner is on the object
OtherHolds(obj) == obj # NoObj /\ Occurrences(obj.finalizers, OtherFinalizerName) > 0

\* C39: after any sequence of reconcile invocations (repeated create, update
\* and delete passes, including re-delivered events), the controller
\* finalizer localstorageclass.storage.deckhouse.io appears at most once in
\* the finalizer list of a LocalStorageClass and at most once in that of a
\* StorageClass, and finalizers owned by others are never removed by a step
\* of the reconciler.
C39_FinalizersKept ==
    /\ [](AtMostOnce(lscStore) /\ AtMostOnce(scStore))
    /\ [][WorkerStep =>
            /\ OtherHolds(lscStore) => OtherHolds(lscStore')
            /\ OtherHolds(scStore) => OtherHolds(scStore')]_vars

\* a create pass is about to put its finalizer on a StorageClass it found
\* listed: the object it sends is the one it configured, which carries no
\* resourceVersion and none of the finalizers the stored one has
C39_Witness ==
    /\ w.pc = "c_addfinsc" /\ w.recType = CreateReconcile /\ w.scRV = "none"
    /\ OtherHolds(scStore) /\ OwnStored /\ ~scStore.deletion
    /\ ~OtherHolds(w.sc) /\ w.sc.params = scStore.params

============================================================================
